---- MODULE Spec2Model ----
(***************************************************************************)
(* Model of the veda-ai backend: prompt builder, query classifier,         *)
(* provider client (retry/backoff state machine) and response cache of     *)
(* src/ai_providers.py, with the analytics error counter it feeds.         *)
(*                                                                         *)
(* Durations are fixed-point numbers: one second is Scale units, so that   *)
(* 1.5, 1.75 and their squares are exact.                                  *)
(***************************************************************************)
EXTENDS Integers, Sequences, FiniteSets, TLC

Scale == 100 * 100

NoneVal == "None"

(***************************************************************************)
(* Text model.  A prompt or a message is long free text; the code only     *)
(* ever asks which category names and which complexity indicator terms     *)
(* occur in it (substring tests on the lowercased text), so a text is      *)
(* represented by the set of category names and the set of indicator       *)
(* terms that occur in it.  The sets below are those of the literal        *)
(* strings of the source.                                                  *)
(***************************************************************************)
CategoryNames == <<"vedas", "puranas", "epics", "knowledge", "characters">>

EmptyText == [cats |-> {}, terms |-> {}]

Concat(a, b) == [cats |-> a.cats \cup b.cats, terms |-> a.terms \cup b.terms]

\* category_personalities: name, persona, quote_style and greeting of each
\* category, as the text they contribute to the prompt.
category_personalities ==
  [vedas |-> [name |-> "Veda Jnana",
              text |-> [cats |-> {"vedas", "knowledge"},
                        terms |-> {"consciousness", "existence", "dharma", "mantra",
                                   "ritual", "jnana", "spiritual"}]],
   puranas |-> [name |-> "Purana Darshak",
                text |-> [cats |-> {"puranas", "characters"},
                          terms |-> {"ritual", "spiritual"}]],
   epics |-> [name |-> "Katha Vachak",
              text |-> [cats |-> {"epics", "characters"},
                        terms |-> {"liberation", "ritual", "spiritual"}]],
   knowledge |-> [name |-> "Vidya Guru",
                  text |-> [cats |-> {"knowledge"},
                            terms |-> {"yoga", "ritual", "spiritual"}]],
   characters |-> [name |-> "Deva Sakha",
                   text |-> [cats |-> {"knowledge"}, terms |-> {}]]]

\* the default personality used for a category that is not in the table
default_personality ==
  [name |-> "Veda AI", text |-> [cats |-> {"knowledge"}, terms |-> {}]]

\* the fixed sentences of base_prompt ("... acknowledge that and suggest ...")
base_prompt_text == [cats |-> {"knowledge"}, terms |-> {}]

\* the brevity instruction appended for a short query
brevity_instruction == [cats |-> {}, terms |-> {"ritual", "spiritual"}]

\* the depth/structure instruction appended otherwise
depth_instruction == [cats |-> {"knowledge"}, terms |-> {}]


(***************************************************************************)
(* Topic strings are sequences of characters, so that normalisation and    *)
(* the substring tests of the topic lookup are computed, not assumed.      *)
(***************************************************************************)
UpperChars == <<"A","B","C","D","E","F","G","H","I","J","K","L","M","N","O","P","Q","R","S","T","U","V","W","X","Y","Z">>

LowerChars == <<"a","b","c","d","e","f","g","h","i","j","k","l","m","n","o","p","q","r","s","t","u","v","w","x","y","z">>

\* str.lower() on one character
LowerChar(c) ==
  IF \E i \in 1..Len(UpperChars) : UpperChars[i] = c
  THEN LowerChars[CHOOSE i \in 1..Len(UpperChars) : UpperChars[i] = c]
  ELSE c

\* str.lower()
Lower(s) == [i \in 1..Len(s) |-> LowerChar(s[i])]

\* str.replace(from, to) for single characters
ReplaceChar(s, from, to) == [i \in 1..Len(s) |-> IF s[i] = from THEN to ELSE s[i]]

\* Python's `a in b` on strings
IsSubstr(a, b) ==
  \E i \in 0..(Len(b) - Len(a)) : SubSeq(b, i + 1, i + Len(a)) = a

\* str.replace(sub, ""): the occurrences of sub are removed left to right
RECURSIVE RemoveAll(_, _)
RemoveAll(sub, s) ==
  IF Len(s) < Len(sub) \/ Len(sub) = 0 THEN s
  ELSE IF SubSeq(s, 1, Len(sub)) = sub
       THEN RemoveAll(sub, SubSeq(s, Len(sub) + 1, Len(s)))
       ELSE <<s[1]>> \o RemoveAll(sub, Tail(s))

GeneralSuffix == <<"_","g","e","n","e","r","a","l">>

\* topic_mapping of find_best_topic_match: topic variants to canonical topic names
topic_mapping ==
  (<<"r","i","g","v","e","d","a","_","g","e","n","e","r","a","l">> :> <<"r","i","g","v","e","d","a">>) @@
  (<<"r","i","g","v","e","d","a">> :> <<"r","i","g","v","e","d","a">>) @@
  (<<"r","i","g","_","v","e","d","a">> :> <<"r","i","g","v","e","d","a">>) @@
  (<<"r","i","g">> :> <<"r","i","g","v","e","d","a">>) @@
  (<<"s","a","m","a","v","e","d","a","_","g","e","n","e","r","a","l">> :> <<"s","a","m","a","v","e","d","a">>) @@
  (<<"s","a","m","a","v","e","d","a">> :> <<"s","a","m","a","v","e","d","a">>) @@
  (<<"s","a","m","a","_","v","e","d","a">> :> <<"s","a","m","a","v","e","d","a">>) @@
  (<<"s","a","m","a">> :> <<"s","a","m","a","v","e","d","a">>) @@
  (<<"y","a","j","u","r","v","e","d","a","_","g","e","n","e","r","a","l">> :> <<"y","a","j","u","r","v","e","d","a">>) @@
  (<<"y","a","j","u","r","v","e","d","a">> :> <<"y","a","j","u","r","v","e","d","a">>) @@
  (<<"y","a","j","u","r","_","v","e","d","a">> :> <<"y","a","j","u","r","v","e","d","a">>) @@
  (<<"y","a","j","u","r">> :> <<"y","a","j","u","r","v","e","d","a">>) @@
  (<<"a","t","h","a","r","v","a","v","e","d","a","_","g","e","n","e","r","a","l">> :> <<"a","t","h","a","r","v","a","v","e","d","a">>) @@
  (<<"a","t","h","a","r","v","a","v","e","d","a">> :> <<"a","t","h","a","r","v","a","v","e","d","a">>) @@
  (<<"a","t","h","a","r","v","a","_","v","e","d","a">> :> <<"a","t","h","a","r","v","a","v","e","d","a">>) @@
  (<<"a","t","h","a","r","v","a">> :> <<"a","t","h","a","r","v","a","v","e","d","a">>) @@
  (<<"u","p","a","n","i","s","h","a","d","s">> :> <<"u","p","a","n","i","s","h","a","d","s">>) @@
  (<<"u","p","a","n","i","s","h","a","d">> :> <<"u","p","a","n","i","s","h","a","d","s">>) @@
  (<<"b","h","a","g","w","a","t">> :> <<"b","h","a","g","a","v","a","t","a","_","p","u","r","a","n","a">>) @@
  (<<"b","h","a","g","w","a","t","_","p","u","r","a","n">> :> <<"b","h","a","g","a","v","a","t","a","_","p","u","r","a","n","a">>) @@
  (<<"b","h","a","g","a","v","a","t","a">> :> <<"b","h","a","g","a","v","a","t","a","_","p","u","r","a","n","a">>) @@
  (<<"b","h","a","g","a","v","a","t","a","_","p","u","r","a","n","a">> :> <<"b","h","a","g","a","v","a","t","a","_","p","u","r","a","n","a">>) @@
  (<<"s","r","i","m","a","d","_","b","h","a","g","a","v","a","t","a","m">> :> <<"b","h","a","g","a","v","a","t","a","_","p","u","r","a","n","a">>) @@
  (<<"b","h","a","g","a","v","a","t","a","m">> :> <<"b","h","a","g","a","v","a","t","a","_","p","u","r","a","n","a">>) @@
  (<<"d","a","s","h","a","v","a","t","a","r","a">> :> <<"d","a","s","h","a","v","a","t","a","r","a">>) @@
  (<<"d","a","s","a","v","a","t","a","r">> :> <<"d","a","s","h","a","v","a","t","a","r","a">>) @@
  (<<"d","a","s","h","a","v","a","t","a","r">> :> <<"d","a","s","h","a","v","a","t","a","r","a">>) @@
  (<<"a","v","a","t","a","r","a","s">> :> <<"d","a","s","h","a","v","a","t","a","r","a">>) @@
  (<<"a","v","a","t","a","r","s">> :> <<"d","a","s","h","a","v","a","t","a","r","a">>) @@
  (<<"v","i","s","h","n","u","_","a","v","a","t","a","r","s">> :> <<"d","a","s","h","a","v","a","t","a","r","a">>) @@
  (<<"r","a","m","a","y","a","n","a">> :> <<"r","a","m","a","y","a","n","a">>) @@
  (<<"r","a","m","a","y","a","n">> :> <<"r","a","m","a","y","a","n","a">>) @@
  (<<"r","a","m","_","c","h","a","r","i","t","_","m","a","n","a","s">> :> <<"r","a","m","a","y","a","n","a">>) @@
  (<<"m","a","h","a","b","h","a","r","a","t","a">> :> <<"m","a","h","a","b","h","a","r","a","t","a">>) @@
  (<<"m","a","h","a","b","h","a","r","a","t">> :> <<"m","a","h","a","b","h","a","r","a","t","a">>) @@
  (<<"b","h","a","g","a","v","a","d","_","g","i","t","a">> :> <<"b","h","a","g","a","v","a","d","_","g","i","t","a">>) @@
  (<<"b","h","a","g","a","v","a","d">> :> <<"b","h","a","g","a","v","a","d","_","g","i","t","a">>) @@
  (<<"b","h","a","g","w","a","t","_","g","e","e","t","a">> :> <<"b","h","a","g","a","v","a","d","_","g","i","t","a">>) @@
  (<<"g","i","t","a">> :> <<"b","h","a","g","a","v","a","d","_","g","i","t","a">>) @@
  (<<"b","h","a","g","a","v","a","d","g","i","t","a">> :> <<"b","h","a","g","a","v","a","d","_","g","i","t","a">>) @@
  (<<"y","o","g","a">> :> <<"y","o","g","a">>) @@
  (<<"y","o","g","a","_","s","u","t","r","a","s">> :> <<"y","o","g","a">>) @@
  (<<"p","a","t","a","n","j","a","l","i">> :> <<"y","o","g","a">>) @@
  (<<"h","a","t","h","a","_","y","o","g","a">> :> <<"y","o","g","a">>) @@
  (<<"a","s","h","t","a","n","g","a","_","y","o","g","a">> :> <<"y","o","g","a">>) @@
  (<<"v","e","d","a","n","t","a">> :> <<"v","e","d","a","n","t","a">>) @@
  (<<"a","d","v","a","i","t","a">> :> <<"v","e","d","a","n","t","a">>) @@
  (<<"a","d","v","a","i","t","a","_","v","e","d","a","n","t","a">> :> <<"v","e","d","a","n","t","a">>) @@
  (<<"d","v","a","i","t","a">> :> <<"v","e","d","a","n","t","a">>) @@
  (<<"v","i","s","h","i","s","h","t","a","d","v","a","i","t","a">> :> <<"v","e","d","a","n","t","a">>) @@
  (<<"k","r","i","s","h","n","a">> :> <<"k","r","i","s","h","n","a">>) @@
  (<<"k","r","s","h","n","a">> :> <<"k","r","i","s","h","n","a">>) @@
  (<<"s","h","r","i","k","r","i","s","h","n","a">> :> <<"k","r","i","s","h","n","a">>) @@
  (<<"s","h","r","i","_","k","r","i","s","h","n","a">> :> <<"k","r","i","s","h","n","a">>) @@
  (<<"k","r","s","n","a">> :> <<"k","r","i","s","h","n","a">>) @@
  (<<"k","a","n","h","a","i","y","a">> :> <<"k","r","i","s","h","n","a">>) @@
  (<<"s","h","i","v","a">> :> <<"s","h","i","v","a">>) @@
  (<<"m","a","h","a","d","e","v">> :> <<"s","h","i","v","a">>) @@
  (<<"r","u","d","r","a">> :> <<"s","h","i","v","a">>) @@
  (<<"b","h","o","l","e","n","a","t","h">> :> <<"s","h","i","v","a">>) @@
  (<<"l","o","r","d","_","s","h","i","v","a">> :> <<"s","h","i","v","a">>)

\* the topic_guidance table of find_best_topic_match, in insertion order
canonical_guidance ==
  <<
  [category |-> "vedas", topic |-> <<"r","i","g","v","e","d","a">>,
   text |-> [cats |-> {},
            terms |-> {"reality", "brahman", "purusha", "mantra", "sacrifice", "ritual", "spiritual"}]],
  [category |-> "vedas", topic |-> <<"s","a","m","a","v","e","d","a">>,
   text |-> [cats |-> {},
            terms |-> {"mantra", "sacrifice", "ritual", "spiritual"}]],
  [category |-> "characters", topic |-> <<"k","r","i","s","h","n","a">>,
   text |-> [cats |-> {},
            terms |-> {"ritual", "bhakti", "spiritual"}]]
  >>

\* the topic_guidance table of get_topic_specific_guidance, in insertion order
topic_guidance ==
  <<
  [category |-> "vedas", topic |-> <<"u","p","a","n","i","s","h","a","d","s">>,
   text |-> [cats |-> {"vedas", "knowledge"},
            terms |-> {"philosophy", "consciousness", "reality", "brahman", "atman", "vedanta", "jnana"}]],
  [category |-> "vedas", topic |-> <<"r","i","g","v","e","d","a">>,
   text |-> [cats |-> {},
            terms |-> {"reality", "brahman", "purusha", "mantra", "sacrifice", "ritual", "spiritual"}]],
  [category |-> "vedas", topic |-> <<"s","a","m","a","v","e","d","a">>,
   text |-> [cats |-> {},
            terms |-> {"mantra", "sacrifice", "ritual", "spiritual"}]],
  [category |-> "puranas", topic |-> <<"b","h","a","g","a","v","a","t","a","_","p","u","r","a","n","a">>,
   text |-> [cats |-> {},
            terms |-> {"cosmology", "ritual", "bhakti", "spiritual"}]],
  [category |-> "puranas", topic |-> <<"d","a","s","h","a","v","a","t","a","r","a">>,
   text |-> [cats |-> {"vedas", "puranas"},
            terms |-> {"dharma"}]],
  [category |-> "epics", topic |-> <<"b","h","a","g","a","v","a","d","_","g","i","t","a">>,
   text |-> [cats |-> {"knowledge"},
            terms |-> {"reality", "dharma", "karma", "advaita", "dvaita", "vishishtadvaita", "gunas", "yoga", "ritual", "jnana", "bhakti", "karma yoga", "spiritual"}]],
  [category |-> "epics", topic |-> <<"r","a","m","a","y","a","n","a">>,
   text |-> [cats |-> {"characters"},
            terms |-> {"ritual", "spiritual"}]],
  [category |-> "knowledge", topic |-> <<"y","o","g","a">>,
   text |-> [cats |-> {"knowledge"},
            terms |-> {"karma", "yoga", "meditation", "samadhi", "chakras", "kundalini", "mantra", "ritual", "jnana", "bhakti", "karma yoga", "raja yoga", "spiritual"}]],
  [category |-> "knowledge", topic |-> <<"v","e","d","a","n","t","a">>,
   text |-> [cats |-> {"knowledge"},
            terms |-> {"philosophy", "reality", "brahman", "atman", "moksha", "liberation", "advaita", "dvaita", "vishishtadvaita", "vedanta", "nyaya", "dualism", "non-dualism", "samsara", "ritual", "sadhana", "spiritual"}]],
  [category |-> "characters", topic |-> <<"k","r","i","s","h","n","a">>,
   text |-> [cats |-> {},
            terms |-> {"ritual", "bhakti", "spiritual"}]],
  [category |-> "characters", topic |-> <<"s","h","i","v","a">>,
   text |-> [cats |-> {"puranas"},
            terms |-> {}]]
  >>

NoGuidance == [kind |-> "none", key |-> <<>>, text |-> EmptyText]

\* index of the first entry of a guidance table that satisfies P, 0 if none
FirstIndex(table, P(_)) ==
  IF \E i \in 1..Len(table) : P(table[i])
  THEN CHOOSE i \in 1..Len(table) :
         P(table[i]) /\ \A j \in 1..(i - 1) : ~P(table[j])
  ELSE 0

find_best_topic_match(category, base_topic, full_topic) ==
  LET canonical_topic ==
        IF base_topic \in DOMAIN topic_mapping THEN topic_mapping[base_topic]
        ELSE IF full_topic \in DOMAIN topic_mapping THEN topic_mapping[full_topic]
        ELSE <<>>
      Hit(e) == e.category = category /\ e.topic = canonical_topic
      i == FirstIndex(canonical_guidance, Hit)
  IN IF canonical_topic # <<>> /\ i # 0
     THEN [kind |-> "specialized_canonical",
           key |-> <<canonical_guidance[i].category, canonical_guidance[i].topic>>,
           text |-> canonical_guidance[i].text]
     ELSE NoGuidance

get_topic_specific_guidance(category, topic) ==
  LET normalized_topic == ReplaceChar(ReplaceChar(Lower(topic), " ", "_"), "-", "_")
      base_topic == IF IsSubstr(GeneralSuffix, normalized_topic)
                    THEN RemoveAll(GeneralSuffix, normalized_topic)
                    ELSE normalized_topic
      best_match == find_best_topic_match(category, base_topic, normalized_topic)
      Exact(e) == e.category = category /\ e.topic = normalized_topic
      Partial(e) == IsSubstr(e.topic, normalized_topic) \/ IsSubstr(normalized_topic, e.topic)
      x == FirstIndex(topic_guidance, Exact)
      p == FirstIndex(topic_guidance, Partial)
  IN IF best_match.kind # "none" THEN best_match
     ELSE IF x # 0
     THEN [kind |-> "specialized_exact",
           key |-> <<topic_guidance[x].category, topic_guidance[x].topic>>,
           text |-> topic_guidance[x].text]
     ELSE IF p # 0
     THEN [kind |-> "related",
           key |-> <<topic_guidance[p].category, topic_guidance[p].topic>>,
           text |-> topic_guidance[p].text]
     ELSE NoGuidance

\* category_personalities.get(category, default)
PersonalityOf(category) ==
  IF category \in DOMAIN category_personalities
  THEN category_personalities[category]
  ELSE default_personality

\* The prompt text, with what it was assembled from kept beside it.
build_system_prompt(category, topic, is_short_query) ==
  LET personality == PersonalityOf(category)
      base_prompt == Concat(personality.text, base_prompt_text)
      with_length == Concat(base_prompt,
                            IF is_short_query THEN brevity_instruction
                            ELSE depth_instruction)
      guidance == get_topic_specific_guidance(category, topic)
      full == IF guidance.kind # "none" THEN Concat(with_length, guidance.text)
              ELSE with_length
  IN [cats |-> full.cats, terms |-> full.terms,
      persona |-> personality.name,
      length |-> IF is_short_query THEN "brevity" ELSE "depth",
      guidance |-> guidance.kind, guidance_key |-> guidance.key]


(***************************************************************************)
(* Messages.  A message is its cleaned text, the number of whitespace-     *)
(* separated words, the segments that re.split(r'[.!?]') cuts it into      *)
(* (each with its word count and the punctuation that ends it; the last    *)
(* segment ends with "" and is empty when the text ends with               *)
(* punctuation), and the indicator terms that occur in it.                 *)
(***************************************************************************)
Seg(n, end) == [n |-> n, end |-> end]

Messages ==
  { \* "hi"
    [text |-> "hi", words |-> 1, segs |-> <<Seg(1, "")>>, terms |-> {}],
    \* "who is rama?"
    [text |-> "who is rama?", words |-> 3,
     segs |-> <<Seg(3, "?"), Seg(0, "")>>, terms |-> {}],
    \* "tell me the story of hanuman"
    [text |-> "tell me the story of hanuman", words |-> 6,
     segs |-> <<Seg(6, "")>>, terms |-> {}],
    \* "what is the meaning of karma and dharma?"
    [text |-> "what is the meaning of karma and dharma?", words |-> 8,
     segs |-> <<Seg(8, "?"), Seg(0, "")>>, terms |-> {"karma", "dharma"}],
    \* "who is rama? who is sita?"
    [text |-> "who is rama? who is sita?", words |-> 6,
     segs |-> <<Seg(3, "?"), Seg(3, "?"), Seg(0, "")>>, terms |-> {}],
    \* one sentence of 35 words without any indicator term
    [text |-> "<35 words>.", words |-> 35,
     segs |-> <<Seg(35, "."), Seg(0, "")>>, terms |-> {}] }

simple_greetings ==
  {"hi", "hello", "hey", "namaste", "ram ram", "jai shree krishna",
   "jai shree ram", "how are you", "good morning", "good afternoon",
   "good evening", "greetings", "om namah shivaya", "hare krishna"}

\* cleaned_message.endswith("?")
EndsWithQuestion(m) ==
  LET k == Len(m.segs)
  IN k >= 2 /\ m.segs[k].n = 0 /\ m.segs[k - 1].end = "?"

\* the short-query test with the greeting list alone
IsShortQueryGreetingOnly(m) == m.text \in simple_greetings

\* the short-query test of generate_chat_response
IsShortQuery(m) ==
  \/ m.text \in simple_greetings
  \/ (EndsWithQuestion(m) /\ m.words <= 3)
  \/ m.words <= 2

RECURSIVE SumWords(_)
SumWords(segs) == IF segs = <<>> THEN 0 ELSE Head(segs).n + SumWords(Tail(segs))

\* the non-empty pieces of re.split(r'[.!?]', text)
Sentences(m) == SelectSeq(m.segs, LAMBDA sg : sg.n > 0)

\* text.count('?')
QuestionCount(m) == Len(SelectSeq(m.segs, LAMBDA sg : sg.end = "?"))

Min(a, b) == IF a < b THEN a ELSE b

Max(a, b) == IF a > b THEN a ELSE b

\* the loop over complex_indicators: one point per term that occurs in the
\* message or in the system prompt, stopping once the score has reached 3
TermScore(score, nterms) ==
  IF nterms = 0 THEN score
  ELSE score + Min(nterms, Max(1, 3 - score))

\* the first category name that occurs in the (lowercased) text
ExtractCategory(text) ==
  IF \E i \in 1..Len(CategoryNames) : CategoryNames[i] \in text.cats
  THEN CategoryNames[CHOOSE i \in 1..Len(CategoryNames) :
                       /\ CategoryNames[i] \in text.cats
                       /\ \A j \in 1..(i - 1) : CategoryNames[j] \notin text.cats]
  ELSE "general"

\* min(5, complexity_score + 1) without the base point
QueryComplexityNoBase(complexity_score) == Min(5, complexity_score)

\* query_complexity = min(5, complexity_score + 1)
QueryComplexity(complexity_score) == Min(5, complexity_score + 1)

analyze_content(m, system_text) ==
  LET total == SumWords(Sentences(m))
      count == Max(1, Len(Sentences(m)))
      \* avg_sentence_length = total / count, compared without dividing
      length_score == IF total > 15 * count THEN 2
                      ELSE IF total > 8 * count THEN 1 ELSE 0
      term_score == TermScore(length_score,
                              Cardinality(m.terms \cup system_text.terms))
      complexity_score == term_score + (IF m.words > 30 THEN 1 ELSE 0)
  IN [category |-> ExtractCategory(system_text),
      \* the prompts of build_system_prompt never hold "focusing specifically on"
      topic |-> "general",
      complexity |-> QueryComplexity(complexity_score),
      has_questions |-> QuestionCount(m) > 0,
      is_multi_question |-> QuestionCount(m) > 1,
      word_count |-> m.words]

(***************************************************************************)
(* The static table of generation parameters.  backoff_factor is in Scale  *)
(* units.                                                                  *)
(***************************************************************************)
ShortTier ==
  [model |-> "mistral-small-latest", max_tokens |-> 250, max_retries |-> 2,
   backoff_factor |-> 15000, timeout |-> 15]

LargeTier ==
  [model |-> "mistral-large-latest", max_tokens |-> 1500, max_retries |-> 3,
   backoff_factor |-> 20000, timeout |-> 35]

MediumTier ==
  [model |-> "mistral-medium-latest", max_tokens |-> 1200, max_retries |-> 3,
   backoff_factor |-> 17500, timeout |-> 30]

SmallTier ==
  [model |-> "mistral-small-latest", max_tokens |-> 800, max_retries |-> 2,
   backoff_factor |-> 15000, timeout |-> 25]

\* the table without the multi-question test of the large tier
SelectParamsIgnoresQuestions(is_short_query, content_analysis) ==
  IF is_short_query THEN ShortTier
  ELSE IF content_analysis.complexity >= 4
          /\ content_analysis.category \in {"vedas", "knowledge"}
       THEN LargeTier
  ELSE IF \/ content_analysis.complexity >= 3
          \/ content_analysis.category \in {"vedas", "knowledge"}
       THEN MediumTier
  ELSE SmallTier

SelectParams(is_short_query, content_analysis) ==
  IF is_short_query THEN ShortTier
  ELSE IF \/ (content_analysis.complexity >= 4
              /\ content_analysis.category \in {"vedas", "knowledge"})
          \/ content_analysis.is_multi_question
       THEN LargeTier
  ELSE IF \/ content_analysis.complexity >= 3
          \/ content_analysis.category \in {"vedas", "knowledge"}
       THEN MediumTier
  ELSE SmallTier


(***************************************************************************)
(* Provider outcomes of one HTTP attempt.                                  *)
(***************************************************************************)
NoHeader == <<"absent">>

Digits == <<"0", "1", "2", "3", "4", "5", "6", "7", "8", "9">>

IsDigit(c) == \E i \in 1..Len(Digits) : Digits[i] = c

DigitValue(c) == (CHOOSE i \in 1..Len(Digits) : Digits[i] = c) - 1

RECURSIVE DigitsValue(_)
DigitsValue(s) ==
  IF s = <<>> THEN 0
  ELSE 10 * DigitsValue(SubSeq(s, 1, Len(s) - 1)) + DigitValue(s[Len(s)])

\* int(text): an optional sign and decimal digits, anything else is a ValueError
ParseInt(s) ==
  LET negative == Len(s) > 0 /\ s[1] = "-"
      digits == IF negative THEN Tail(s) ELSE s
      ok == Len(digits) > 0 /\ \A i \in 1..Len(digits) : IsDigit(digits[i])
  IN [ok |-> ok,
      value |-> IF ~ok THEN 0
                ELSE IF negative THEN 0 - DigitsValue(digits) ELSE DigitsValue(digits)]

\* Retry-After header values: delay seconds, a negative number, an HTTP date
RetryAfterValues ==
  { <<"0">>, <<"2">>, <<"-", "1">>,
    <<"W", "e", "d", ",", " ", "2", "1", " ", "O", "c", "t">> }

Contents == {"c1", "c2"}

Net(kind) ==
  [kind |-> kind, status |-> 0, retry_after |-> NoHeader, body |-> "",
   content |-> "", json_error |-> ""]

Http(status, retry_after, body, content, json_error) ==
  [kind |-> "http", status |-> status, retry_after |-> retry_after, body |-> body,
   content |-> content, json_error |-> json_error]

TimeoutOutcomes == {Net("timeout")}

ConnectionOutcomes == {Net("connection")}

\* any other requests.exceptions.RequestException raised by requests.post
RequestExceptionOutcomes == {Net("request_exception")}

RateLimitOutcomes ==
  {Http(429, h, "", "", "") : h \in RetryAfterValues \cup {NoHeader}}

ErrorStatuses == {400, 401, 404, 500, 503}

HttpErrorOutcomes == {Http(st, NoHeader, "", "", "") : st \in ErrorStatuses}

\* HTTP 200: a completion with or without "usage", a body that is not JSON
\* (response.json() raises a RequestException subclass or a plain ValueError,
\* depending on the installed requests library), JSON without "choices"
OkOutcomes(contents) ==
  {Http(200, NoHeader, b, c, "") :
     b \in {"completion_with_usage", "completion"}, c \in contents}
  \cup {Http(200, NoHeader, "not_json", "", e) : e \in {"RequestException", "ValueError"}}
  \cup {Http(200, NoHeader, "no_choices", "", "")}

(***************************************************************************)
(* generate_mistral_response: one iteration of the retry loop, and the     *)
(* code after the loop.                                                    *)
(***************************************************************************)
\* factor ** n in Scale units
RECURSIVE PowScaled(_, _)
PowScaled(factor, n) ==
  IF n = 0 THEN Scale ELSE (PowScaled(factor, n - 1) * factor) \div Scale

\* the fallback message of the category, in its short or long form
FallbackResponse(current_category, is_short_query) ==
  <<"fallback", current_category, IF is_short_query THEN "short" ELSE "long">>

\* the code after the loop: fallback message, track_error, the returned dict
FallbackReturn(c, st) ==
  LET current_category == ExtractCategory(c.system_prompt)
  IN [st EXCEPT
        !.pc = "returned",
        !.tracked = <<st.last_error>>,
        !.result = [response |-> FallbackResponse(current_category, c.is_short_query),
                    error |-> st.last_error,
                    model |-> c.params.model,
                    complexity_score |-> c.content_analysis.complexity]]

\* SuccessReturn without the return: the loop goes on after a completion
SuccessKeepsRetrying(c, st, o) ==
  LET next == [st EXCEPT !.retry_count = st.retry_count + 1]
  IN IF next.retry_count < c.params.max_retries THEN next
     ELSE [next EXCEPT !.pc = "returned",
                       !.result = [response |-> <<"completion", o.content>>,
                                   model |-> c.params.model]]

\* the dict returned for a well-formed completion
SuccessReturn(c, st, o) ==
  [st EXCEPT
     !.pc = "returned",
     !.result = [response |-> <<"completion", o.content>>,
                 model |-> c.params.model,
                 complexity_score |-> c.content_analysis.complexity,
                 token_usage |-> IF o.body = "completion_with_usage"
                                 THEN <<"usage">> ELSE <<>>]]

\* an exception that no except clause of the loop catches
Escapes(st, exception) == [st EXCEPT !.pc = "raised", !.exception = exception]

\* retry_count += 1, then the while condition
Retry(c, st, error) ==
  LET next == [st EXCEPT !.retry_count = st.retry_count + 1, !.last_error = error]
  IN IF next.retry_count < c.params.max_retries THEN next ELSE FallbackReturn(c, next)

\* last_error = "api_error"; break
NoRetry(c, st) == FallbackReturn(c, [st EXCEPT !.last_error = "api_error"])

\* the 429 branch: sleep Retry-After (default int(backoff_factor ** retry_count))
RateLimited(c, st, o) ==
  LET parsed == ParseInt(o.retry_after)
      retry_after == IF o.retry_after = NoHeader
                     THEN PowScaled(c.params.backoff_factor, st.retry_count) \div Scale
                     ELSE parsed.value
      slept == [st EXCEPT !.trace[Len(st.trace)].post = <<retry_after * Scale>>]
  IN IF o.retry_after # NoHeader /\ ~parsed.ok THEN Escapes(st, "ValueError")
     \* time.sleep raises ValueError for a negative length
     ELSE IF retry_after < 0 THEN Escapes(st, "ValueError")
     ELSE Retry(c, slept, st.last_error)

\* f"http_{status_code}"
HttpErrorTag(status) ==
  CASE status = 500 -> "http_500"
    [] status = 503 -> "http_503"
    [] status = 429 -> "http_429"
    [] OTHER -> "http_other"

\* HttpError with every error status treated as retryable
HttpErrorRetriesAll(c, st, o) == Retry(c, st, HttpErrorTag(o.status))

\* response.raise_for_status() and the handler of RequestException
HttpError(c, st, o) ==
  IF o.status >= 500 \/ o.status = 429
  THEN Retry(c, st, HttpErrorTag(o.status))
  ELSE NoRetry(c, st)

\* response.json() and the extraction of the completion
HttpOk(c, st, o) ==
  IF o.body = "not_json"
  THEN IF o.json_error = "RequestException" THEN NoRetry(c, st)
       ELSE Escapes(st, "ValueError")
  ELSE IF o.body = "no_choices" THEN Escapes(st, "KeyError")
  ELSE SuccessReturn(c, st, o)

\* One pass through the body of `while retry_count < max_retries`.
MistralAttempt(c, st, o) ==
  LET pre == IF st.retry_count > 0
             THEN <<PowScaled(c.params.backoff_factor, st.retry_count)>>
             ELSE <<>>
      posted == [st EXCEPT
                   !.trace = Append(st.trace, [outcome |-> o, pre |-> pre, post |-> <<>>,
                                                retry_count |-> st.retry_count])]
  IN IF o.kind = "timeout" THEN Retry(c, posted, "timeout")
     ELSE IF o.kind = "connection" THEN Retry(c, posted, "connection")
     ELSE IF o.kind = "request_exception" THEN NoRetry(c, posted)
     ELSE IF o.status = 429 THEN RateLimited(c, posted, o)
     ELSE IF o.status >= 400 /\ o.status < 600 THEN HttpError(c, posted, o)
     ELSE HttpOk(c, posted, o)

\* the local state of a call when it starts
MistralStart ==
  [pc |-> "running", retry_count |-> 0, last_error |-> NoneVal, trace |-> <<>>,
   result |-> [status |-> "none"], exception |-> "", tracked |-> <<>>]

\* the inputs of generate_mistral_response as generate_chat_response passes them
CallFor(category, topic, message) ==
  LET is_short_query == IsShortQuery(message)
      system_prompt == build_system_prompt(category, topic, is_short_query)
      content_analysis == analyze_content(message, system_prompt)
  IN [category |-> category, topic |-> topic, message |-> message,
      is_short_query |-> is_short_query,
      system_prompt |-> system_prompt,
      content_analysis |-> content_analysis,
      params |-> SelectParams(is_short_query, content_analysis)]

(***************************************************************************)
(* analytics.py: ANALYTICS_STORE, track_response_time and track_error.  A   *)
(* dict is a function from its keys; an entry of response_times is kept    *)
(* without its timestamp and its duration.                                 *)
(***************************************************************************)
\* d.get(k, default)
DictGet(d, k, default) == IF k \in DOMAIN d THEN d[k] ELSE default

\* d[k] = v
DictPut(d, k, v) == (k :> v) @@ d

AnalyticsInit ==
  [response_times |-> <<>>, requests_per_category |-> <<>>,
   requests_per_topic |-> <<>>, errors |-> <<>>,
   total_requests |-> 0, successful_requests |-> 0]

track_response_time(store, category, topic, model) ==
  [store EXCEPT
     !.response_times = Append(@, [category |-> category, topic |-> topic,
                                   model |-> model]),
     !.requests_per_category = DictPut(@, category, DictGet(@, category, 0) + 1),
     !.requests_per_topic = DictPut(@, <<category, topic>>,
                                    DictGet(@, <<category, topic>>, 0) + 1),
     !.total_requests = @ + 1,
     !.successful_requests = @ + 1]

\* track_error that counts the error and leaves total_requests alone
TrackErrorKeepsTotal(store, error_type) ==
  [store EXCEPT !.errors = DictPut(@, error_type, DictGet(@, error_type, 0) + 1)]

track_error(store, error_type) ==
  [store EXCEPT !.errors = DictPut(@, error_type, DictGet(@, error_type, 0) + 1),
                !.total_requests = @ + 1]


(***************************************************************************)
(* The response cache of generate_chat_response.  RESPONSE_CACHE is a      *)
(* dict, kept here as the sequence of its items in insertion order.  Time  *)
(* is a clock of whole ticks; CACHE_TTL and CACHE_MAX_SIZE are scaled down *)
(* from 3600 seconds and 1000 entries.                                     *)
(***************************************************************************)
CACHE_TTL == 2

CACHE_MAX_SIZE == 2

MaxTime == 3

MaxRequests == 3

\* hash(message): the messages of the model have pairwise different hashes,
\* so the hash is kept as the text it was computed from
MessageHash(m) == m.text

\* f"{category}:{topic}:{hash(message)}"
CacheKey(category, topic, message) == <<category, topic, MessageHash(message)>>

\* position of key in the dict, 0 when it is not in it
CacheIndex(cache, key) ==
  IF \E i \in 1..Len(cache) : cache[i].key = key
  THEN CHOOSE i \in 1..Len(cache) : cache[i].key = key
  ELSE 0

\* RESPONSE_CACHE[key] = {...}: a new key goes last, a known key keeps its place
CachePut(cache, key, response, expiry) ==
  LET i == CacheIndex(cache, key)
      item == [key |-> key, response |-> response, expiry |-> expiry]
  IN IF i = 0 THEN Append(cache, item) ELSE [cache EXCEPT ![i] = item]

\* IsFresh with <= for <: an entry is still served at its expiry time
IsFreshInclusive(time, expiry) == time <= expiry

\* datetime.utcnow() < expiry_time
IsFresh(time, expiry) == time < expiry

\* current_time > cache_data['expiry']
IsExpired(time, expiry) == time > expiry

\* sorted(items, key = expiry, reverse = True): a stable sort, so items of
\* equal expiry keep their order; insertion of x into a sorted sequence
RECURSIVE InsertByExpiry(_, _)
InsertByExpiry(x, sorted) ==
  IF sorted = <<>> THEN <<x>>
  ELSE IF x.expiry > Head(sorted).expiry THEN <<x>> \o sorted
  ELSE <<Head(sorted)>> \o InsertByExpiry(x, Tail(sorted))

\* items sorted by expiry, newest first; the last item is inserted last and
\* so ends behind the items of the same expiry that precede it
RECURSIVE SortNewestFirst(_)
SortNewestFirst(items) ==
  IF items = <<>> THEN <<>>
  ELSE InsertByExpiry(items[Len(items)],
                      SortNewestFirst(SubSeq(items, 1, Len(items) - 1)))

\* clean_expired_cache_entries keeping the first items of the dict instead
\* of the ones that expire last
CleanKeepsFirstInserted(cache, current_time) ==
  LET live == SelectSeq(cache, LAMBDA e : ~IsExpired(current_time, e.expiry))
  IN IF Len(live) > CACHE_MAX_SIZE THEN SubSeq(live, 1, CACHE_MAX_SIZE) ELSE live

clean_expired_cache_entries(cache, current_time) ==
  LET live == SelectSeq(cache, LAMBDA e : ~IsExpired(current_time, e.expiry))
  IN IF Len(live) > CACHE_MAX_SIZE
     THEN SubSeq(SortNewestFirst(live), 1, CACHE_MAX_SIZE)
     ELSE live

\* generate_mistral_response run to its end on the outcomes of its attempts
RECURSIVE RunMistral(_, _, _)
RunMistral(c, st, outcomes) ==
  IF st.pc # "running" \/ outcomes = <<>> THEN st
  ELSE RunMistral(c, MistralAttempt(c, st, Head(outcomes)), Tail(outcomes))

ErrorMessage == <<"An error occurred while generating a response.">>

ConfigErrorMessage == <<"Mistral AI API key is not configured.">>

\* generate_chat_response that asks the provider whether or not a key is
\* configured
ChatWithoutKeyCheck(cache, time, api_available, store, c, outcomes, elapsed) ==
  LET cache_key == CacheKey(c.category, c.topic, c.message)
      i == CacheIndex(cache, cache_key)
      lookup == IF i = 0 THEN "absent"
                ELSE IF IsFresh(time, cache[i].expiry) THEN "hit" ELSE "expired"
      st == RunMistral(c, MistralStart, outcomes)
      tracked == IF st.tracked = <<>> THEN store ELSE track_error(store, st.tracked[1])
  IN IF lookup = "hit"
     THEN [response_data |-> [response |-> cache[i].response],
           cache |-> cache, store |-> store, lookup |-> lookup,
           provider_calls |-> 0, key |-> cache_key]
     ELSE IF st.pc = "raised"
     THEN [response_data |-> [response |-> ErrorMessage],
           cache |-> cache, store |-> tracked, lookup |-> lookup,
           provider_calls |-> Len(st.trace), key |-> cache_key]
     ELSE [response_data |-> st.result,
           cache |-> CachePut(cache, cache_key, st.result.response,
                              time + elapsed + CACHE_TTL),
           store |-> tracked, lookup |-> lookup,
           provider_calls |-> Len(st.trace), key |-> cache_key]

\* generate_chat_response(message, category, topic): what it returns and what
\* it leaves in the cache and in the analytics store.  c holds the request
\* with the short-query flag and the system prompt computed from it,
\* `outcomes` are the provider's answers to the attempts, `elapsed` is the
\* time the call takes.
generate_chat_response(cache, time, api_available, store, c, outcomes, elapsed) ==
  LET cache_key == CacheKey(c.category, c.topic, c.message)
      i == CacheIndex(cache, cache_key)
      lookup == IF i = 0 THEN "absent"
                ELSE IF IsFresh(time, cache[i].expiry) THEN "hit" ELSE "expired"
      st == RunMistral(c, MistralStart, outcomes)
      tracked == IF st.tracked = <<>> THEN store ELSE track_error(store, st.tracked[1])
  IN IF lookup = "hit"
     THEN [response_data |-> [response |-> cache[i].response],
           cache |-> cache, store |-> store, lookup |-> lookup,
           provider_calls |-> 0, key |-> cache_key]
     ELSE IF ~api_available
     THEN [response_data |-> [response |-> ConfigErrorMessage],
           cache |-> cache, store |-> store, lookup |-> lookup,
           provider_calls |-> 0, key |-> cache_key]
     ELSE IF st.pc = "raised"
     THEN [response_data |-> [response |-> ErrorMessage],
           cache |-> cache, store |-> tracked, lookup |-> lookup,
           provider_calls |-> Len(st.trace), key |-> cache_key]
     ELSE [response_data |-> st.result,
           cache |-> CachePut(cache, cache_key, st.result.response,
                              time + elapsed + CACHE_TTL),
           store |-> tracked, lookup |-> lookup,
           provider_calls |-> Len(st.trace), key |-> cache_key]

(***************************************************************************)
(* State.                                                                  *)
(***************************************************************************)
VARIABLES
  call,             \* the inputs of the running generate_mistral_response call
  pc,               \* "running", "returned" or "raised"
  retry_count,
  last_error,
  trace,            \* one record per HTTP attempt: outcome and sleeps around it
  result,           \* the dict returned to the caller
  exception,        \* the exception that escaped, when pc = "raised"
  ANALYTICS_STORE,
  mistral_api_available,
  RESPONSE_CACHE,
  now,              \* datetime.utcnow(), in ticks
  requests_made,    \* requests handled so far
  chat,             \* what the last generate_chat_response call did and returned
  swept,            \* the cache as clean_expired_cache_entries found it
  input,            \* the arguments a function is applied to on its own
  output,           \* what it returned
  db,               \* the database: users, conversations and chat messages
  http,             \* the last HTTP response of the Flask routes
  procs             \* requests handled concurrently: each one's position and locals

mistralVars == <<call, pc, retry_count, last_error, trace, result, exception>>

cacheVars == <<mistral_api_available, RESPONSE_CACHE, now, requests_made, chat, swept>>

pureVars == <<input, output>>

routeVars == <<db, http>>

vars == <<call, pc, retry_count, last_error, trace, result, exception, ANALYTICS_STORE,
          mistral_api_available, RESPONSE_CACHE, now, requests_made, chat, swept,
          input, output, db, http, procs>>

NoChat == [response |-> <<>>, lookup |-> "none", provider_calls |-> 0, key |-> <<>>,
           expired_seen |-> FALSE]

NotSwept == [done |-> FALSE, before |-> <<>>, time |-> 0]

\* no function is being applied on its own
NoInput == [op |-> "none"]

NoOutput == [op |-> "none"]

PureIdle ==
  /\ input = NoInput
  /\ output = NoOutput

\* no request is being handled step by step
ProcsIdle == procs = <<>>

\* the database as db.create_all() leaves it, and no request answered yet
EmptyDb == [users |-> <<>>, conversations |-> <<>>, messages |-> <<>>]

NoHttp == [route |-> "none"]

RouteIdle ==
  /\ db = EmptyDb
  /\ http = NoHttp

\* the cache-side state while only generate_mistral_response is looked at
CacheIdle ==
  /\ mistral_api_available = TRUE
  /\ RESPONSE_CACHE = <<>>
  /\ now = 0
  /\ requests_made = 0
  /\ chat = NoChat
  /\ swept = NotSwept

\* the categories of category_personalities and one that is not in the table
RequestCategories ==
  {"vedas", "puranas", "epics", "knowledge", "characters", "astrology"}

\* topics as the client sends them: "rigveda-general", "shiv", "garuda"
RequestTopics ==
  { <<"r","i","g","v","e","d","a","-","g","e","n","e","r","a","l">>,
    <<"s","h","i","v">>,
    <<"g","a","r","u","d","a">> }

MistralState ==
  [pc |-> pc, retry_count |-> retry_count, last_error |-> last_error,
   trace |-> trace, result |-> result, exception |-> exception, tracked |-> <<>>]

\* the loop iteration on outcome o, with the analytics update of the fallback
Attempt(o) ==
  /\ pc = "running"
  /\ LET st == MistralAttempt(call, MistralState, o)
     IN /\ pc' = st.pc
        /\ retry_count' = st.retry_count
        /\ last_error' = st.last_error
        /\ trace' = st.trace
        /\ result' = st.result
        /\ exception' = st.exception
        /\ ANALYTICS_STORE' = IF st.tracked = <<>> THEN ANALYTICS_STORE
                              ELSE track_error(ANALYTICS_STORE, st.tracked[1])
  /\ UNCHANGED call
  /\ UNCHANGED cacheVars
  /\ UNCHANGED <<pureVars, procs, routeVars>>

AttemptTimeout == \E o \in TimeoutOutcomes : Attempt(o)

AttemptConnectionError == \E o \in ConnectionOutcomes : Attempt(o)

AttemptRequestException == \E o \in RequestExceptionOutcomes : Attempt(o)

AttemptRateLimited == \E o \in RateLimitOutcomes : Attempt(o)

AttemptHttpError == \E o \in HttpErrorOutcomes : Attempt(o)

AttemptOk == \E o \in OkOutcomes({"c1"}) : Attempt(o)

\* a call of generate_mistral_response on any request, provider not yet asked
RetryInit ==
  /\ call \in {CallFor(c, t, m) : c \in RequestCategories, t \in RequestTopics,
                                  m \in Messages}
  /\ pc = MistralStart.pc
  /\ retry_count = MistralStart.retry_count
  /\ last_error = MistralStart.last_error
  /\ trace = MistralStart.trace
  /\ result = MistralStart.result
  /\ exception = MistralStart.exception
  /\ ANALYTICS_STORE = AnalyticsInit
  /\ CacheIdle
  /\ PureIdle
  /\ ProcsIdle
  /\ RouteIdle

RetryNext ==
  \/ AttemptTimeout
  \/ AttemptConnectionError
  \/ AttemptRequestException
  \/ AttemptRateLimited
  \/ AttemptHttpError
  \/ AttemptOk

SpecRetry == RetryInit /\ [][RetryNext]_vars


(***************************************************************************)
(* Sequences of generate_chat_response calls against the cache.            *)
(***************************************************************************)
\* (category, topic, message) of the chat requests
ChatRequests ==
  { <<"vedas", <<"r","i","g","v","e","d","a","-","g","e","n","e","r","a","l">>,
      [text |-> "hi", words |-> 1, segs |-> <<Seg(1, "")>>, terms |-> {}]>>,
    <<"characters", <<"s","h","i","v">>,
      [text |-> "tell me the story of hanuman", words |-> 6,
       segs |-> <<Seg(6, "")>>, terms |-> {}]>>,
    <<"puranas", <<"g","a","r","u","d","a">>,
      [text |-> "who is rama?", words |-> 3,
       segs |-> <<Seg(3, "?"), Seg(0, "")>>, terms |-> {}]>> }

\* the provider's answers in the chat runs
ChatOutcomes ==
  TimeoutOutcomes
  \cup {Http(401, NoHeader, "", "", "")}
  \cup {Http(200, NoHeader, "completion", c, "") : c \in Contents}
  \cup {Http(200, NoHeader, "no_choices", "", "")}

\* no call of generate_mistral_response is being looked at step by step
MistralIdle ==
  /\ call = CallFor("vedas", <<>>, [text |-> "", words |-> 0, segs |-> <<>>, terms |-> {}])
  /\ pc = "idle"
  /\ retry_count = MistralStart.retry_count
  /\ last_error = MistralStart.last_error
  /\ trace = MistralStart.trace
  /\ result = MistralStart.result
  /\ exception = MistralStart.exception

ChatRequest(category, topic, message) ==
  /\ requests_made < MaxRequests
  /\ \E c \in {CallFor(category, topic, message)} :
     \E outcomes \in [1..c.params.max_retries -> ChatOutcomes],
        elapsed \in 0..Min(1, MaxTime - now) :
     \E r \in {generate_chat_response(RESPONSE_CACHE, now, mistral_api_available,
                                      ANALYTICS_STORE, c, outcomes, elapsed)} :
          /\ RESPONSE_CACHE' = r.cache
          /\ ANALYTICS_STORE' = r.store
          /\ now' = IF r.provider_calls > 0 THEN now + elapsed ELSE now
          /\ chat' = [response |-> r.response_data.response, lookup |-> r.lookup,
                      provider_calls |-> r.provider_calls, key |-> r.key,
                      expired_seen |-> chat.expired_seen \/ r.lookup = "expired"]
  /\ requests_made' = requests_made + 1
  /\ UNCHANGED <<mistralVars, mistral_api_available, swept, pureVars, procs, routeVars>>

Chat == \E rq \in ChatRequests : ChatRequest(rq[1], rq[2], rq[3])

\* time passes between requests
Tick ==
  /\ now < MaxTime
  /\ now' = now + 1
  /\ UNCHANGED <<mistralVars, ANALYTICS_STORE, mistral_api_available, RESPONSE_CACHE,
                 requests_made, chat, swept, pureVars, procs, routeVars>>

ChatInit ==
  /\ MistralIdle
  /\ ANALYTICS_STORE = AnalyticsInit
  /\ mistral_api_available \in BOOLEAN
  /\ RESPONSE_CACHE = <<>>
  /\ now = 0
  /\ requests_made = 0
  /\ chat = NoChat
  /\ swept = NotSwept
  /\ PureIdle
  /\ ProcsIdle
  /\ RouteIdle

ChatNext == Chat \/ Tick

SpecChat == ChatInit /\ [][ChatNext]_vars

(***************************************************************************)
(* clean_expired_cache_entries on any cache content.                       *)
(***************************************************************************)
SweepKeys == {"k1", "k2", "k3", "k4"}

\* a dict over SweepKeys: the keys ks in insertion order, with the expiries ex
SweepCache(ks, ex) ==
  [i \in 1..Len(ks) |-> [key |-> ks[i], response |-> <<"completion", "c1">>,
                         expiry |-> ex[i]]]

Sweep ==
  /\ ~swept.done
  /\ RESPONSE_CACHE' = clean_expired_cache_entries(RESPONSE_CACHE, now)
  /\ swept' = [done |-> TRUE, before |-> RESPONSE_CACHE, time |-> now]
  /\ UNCHANGED <<mistralVars, ANALYTICS_STORE, mistral_api_available, now,
                 requests_made, chat, pureVars, procs, routeVars>>

SweepInit ==
  /\ MistralIdle
  /\ ANALYTICS_STORE = AnalyticsInit
  /\ mistral_api_available = TRUE
  /\ now \in 0..MaxTime
  /\ \E n \in 0..Cardinality(SweepKeys) :
       \E ks \in [1..n -> SweepKeys], ex \in [1..n -> 0..MaxTime] :
         /\ \A a, b \in 1..n : a # b => ks[a] # ks[b]
         /\ RESPONSE_CACHE = SweepCache(ks, ex)
  /\ requests_made = 0
  /\ chat = NoChat
  /\ swept = NotSwept
  /\ PureIdle
  /\ ProcsIdle
  /\ RouteIdle

SweepNext == Sweep

SpecSweep == SweepInit /\ [][SweepNext]_vars


(***************************************************************************)
(* The prompt builder, the topic resolver, the query classifier and the    *)
(* parameter table applied on their own to inputs of every shape.          *)
(***************************************************************************)
\* the messages of the provider runs, a two-word message that is no greeting
\* and a greeting of three words
PureMessages ==
  Messages \cup
  { [text |-> "om shanti", words |-> 2, segs |-> <<Seg(2, "")>>, terms |-> {}],
    [text |-> "jai shree krishna", words |-> 3, segs |-> <<Seg(3, "")>>,
     terms |-> {}],
    [text |-> "who was the father of rama?", words |-> 6,
     segs |-> <<Seg(6, "?"), Seg(0, "")>>, terms |-> {}] }

\* system texts as analyze_content may be handed them: with and without a
\* category name, with any of four indicator terms
AnalyzeTexts ==
  { [cats |-> cs, terms |-> ts] :
      cs \in {{}, {"knowledge"}, {"epics"}},
      ts \in SUBSET {"karma", "yoga", "ritual", "spiritual"} }

PromptInputs ==
  { [op |-> "prompt", category |-> c, topic |-> t, message |-> m] :
      c \in RequestCategories, t \in RequestTopics, m \in PureMessages }

\* requests the chat route accepts and requests it does not
CallInputs ==
  { [op |-> "call", category |-> c, topic |-> t, message |-> m] :
      c \in RequestCategories,
      t \in RequestTopics \cup {<<"s","h","i","v","a">>, <<"i","n","d","r","a">>,
                                <<"r","a","m","a","y","a","n","a">>},
      m \in PureMessages }

GuidanceInputs ==
  { [op |-> "guidance", category |-> c, topic |-> t] :
      c \in RequestCategories, t \in DOMAIN topic_mapping }

AnalyzeInputs ==
  { [op |-> "analyze", message |-> m, system_text |-> t] :
      m \in PureMessages, t \in AnalyzeTexts }

SelectInputs ==
  { [op |-> "select", is_short_query |-> sq,
     content_analysis |-> [category |-> c, complexity |-> k,
                           is_multi_question |-> mq]] :
      sq \in BOOLEAN, c \in {CategoryNames[i] : i \in 1..Len(CategoryNames)} \cup {"general"},
      k \in 1..5, mq \in BOOLEAN }

\* generate_chat_response up to the prompt it builds
BuildPrompt ==
  /\ input.op = "prompt"
  /\ output = NoOutput
  /\ LET is_short_query == IsShortQuery(input.message)
     IN output' = [op |-> "prompt", is_short_query |-> is_short_query,
                   system_prompt |-> build_system_prompt(input.category, input.topic,
                                                         is_short_query)]
  /\ UNCHANGED <<mistralVars, ANALYTICS_STORE, cacheVars, input, routeVars, procs>>

ResolveGuidance ==
  /\ input.op = "guidance"
  /\ output = NoOutput
  /\ output' = [op |-> "guidance",
                guidance |-> get_topic_specific_guidance(input.category, input.topic)]
  /\ UNCHANGED <<mistralVars, ANALYTICS_STORE, cacheVars, input, routeVars, procs>>

Analyze ==
  /\ input.op = "analyze"
  /\ output = NoOutput
  /\ output' = [op |-> "analyze",
                content_analysis |-> analyze_content(input.message, input.system_text)]
  /\ UNCHANGED <<mistralVars, ANALYTICS_STORE, cacheVars, input, routeVars, procs>>

Select ==
  /\ input.op = "select"
  /\ output = NoOutput
  /\ output' = [op |-> "select",
                params |-> SelectParams(input.is_short_query, input.content_analysis)]
  /\ UNCHANGED <<mistralVars, ANALYTICS_STORE, cacheVars, input, routeVars, procs>>

\* generate_chat_response and generate_mistral_response up to the payload: the
\* short flag, the prompt, the content analysis and the parameters chosen
PrepareCall ==
  /\ input.op = "call"
  /\ output = NoOutput
  /\ output' = [op |-> "call",
                call |-> CallFor(input.category, input.topic, input.message)]
  /\ UNCHANGED <<mistralVars, ANALYTICS_STORE, cacheVars, input, routeVars, procs>>

PureInit ==
  /\ MistralIdle
  /\ ANALYTICS_STORE = AnalyticsInit
  /\ CacheIdle
  /\ RouteIdle
  /\ ProcsIdle
  /\ input \in PromptInputs \cup GuidanceInputs \cup AnalyzeInputs \cup SelectInputs
                \cup CallInputs
  /\ output = NoOutput

PureNext ==
  \/ BuildPrompt
  \/ ResolveGuidance
  \/ Analyze
  \/ Select
  \/ PrepareCall

SpecPure == PureInit /\ [][PureNext]_vars


(***************************************************************************)
(* The Flask routes POST /api/chat and GET /api/health.  A JSON value of   *)
(* the request body is kept with its kind: absent, the empty string, a     *)
(* non-empty string, a number.  User id 0 is the anonymous caller, and     *)
(* conversation id 0 is "no conversation_id given".                        *)
(***************************************************************************)
\* categories.py: the topic ids of each category (subcategories flattened as
\* get_all_topics does), each id as the string of its characters
categories ==
  [  vedas |-> {
      <<"r","i","g","v","e","d","a","-","g","e","n","e","r","a","l">>,
      <<"y","a","j","u","r","v","e","d","a","-","g","e","n","e","r","a","l">>,
      <<"s","a","m","a","v","e","d","a","-","g","e","n","e","r","a","l">>,
      <<"a","t","h","a","r","v","a","v","e","d","a","-","g","e","n","e","r","a","l">> },
   puranas |-> {
      <<"b","h","a","g","w","a","t">>,
      <<"b","h","a","v","i","s","h","y","a">>,
      <<"b","r","a","h","m","a">>,
      <<"b","r","a","h","m","a","n","d">>,
      <<"g","a","r","u","d","a">>,
      <<"k","u","r","m","a">>,
      <<"l","i","n","g">>,
      <<"m","a","r","k","a","n","d","y","a">>,
      <<"m","a","t","s","y","a">>,
      <<"n","a","r","a","d">>,
      <<"p","a","d","m","a">>,
      <<"s","h","i","v">>,
      <<"s","k","a","n","d">>,
      <<"b","r","a","h","m","v","a","i","v","a","t","r","a">>,
      <<"v","a","m","a","n">>,
      <<"v","a","r","a","h">>,
      <<"v","i","s","h","n","u">> },
   epics |-> {
      <<"m","a","h","a","b","h","a","r","a","t","a">>,
      <<"r","a","m","a","y","a","n","a">>,
      <<"r","a","m","c","h","a","r","i","t","m","a","n","a","s">>,
      <<"g","i","t","a">> },
   knowledge |-> {
      <<"a","y","u","r","v","e","d","a">>,
      <<"j","y","o","t","i","s","h">> },
   characters |-> {
      <<"v","i","s","h","n","u">>,
      <<"s","h","i","v","a">>,
      <<"b","r","a","h","m","a">>,
      <<"i","n","d","r","a">>,
      <<"s","u","r","y","a">>,
      <<"r","a","m","a">>,
      <<"k","r","i","s","h","n","a">>,
      <<"n","a","r","a","s","i","m","h","a">>,
      <<"v","a","m","a","n","a">>,
      <<"p","a","r","a","s","h","u","r","a","m","a">>,
      <<"v","a","s","h","i","s","h","t","h","a">>,
      <<"v","i","s","h","w","a","m","i","t","r","a">>,
      <<"n","a","r","a","d","a">>,
      <<"v","y","a","s","a">>,
      <<"v","a","l","m","i","k","i">> }]

get_category_by_id(category_id) == category_id \in DOMAIN categories

\* get_topic_info(topic, category), with category known to be truthy
get_topic_info(topic_id, category_id) ==
  \E cat \in DOMAIN categories : topic_id \in categories[cat] /\ cat = category_id

\* perplexity_api_available = False  # Explicitly disabled
perplexity_api_available == FALSE

MaxApiRequests == 2

Absent == [kind |-> "absent"]

EmptyString == [kind |-> "empty"]

Str(v) == [kind |-> "string", value |-> v]

Number == [kind |-> "number"]

\* data.get(field) is truthy
Truthy(v) == v.kind \in {"string", "number"}

\* request bodies: no JSON or an empty object, a JSON array, a JSON object
RouteBodies ==
  {[kind |-> "empty"], [kind |-> "array"]} \cup
  { [kind |-> "object", message |-> m, category |-> c, topic |-> t,
     conversation_id |-> k] :
      m \in {Absent, EmptyString, Number,
             Str([text |-> "hi", words |-> 1, segs |-> <<Seg(1, "")>>, terms |-> {}]),
             Str([text |-> "tell me the story of hanuman", words |-> 6,
                  segs |-> <<Seg(6, "")>>, terms |-> {}])},
      c \in {Absent, Str("vedas"), Str("puranas"), Str("astrology")},
      t \in {Absent, Str(<<"r","i","g","v","e","d","a","-","g","e","n","e","r","a","l">>),
             Str(<<"s","h","i","v">>)},
      k \in 0..1 }

\* the provider's answer to every attempt of one request
RouteOutcomes ==
  TimeoutOutcomes
  \cup {Http(401, NoHeader, "", "", "")}
  \cup {Http(200, NoHeader, "completion", "c1", "")}
  \cup {Http(200, NoHeader, "no_choices", "", "")}

\* two registered users, the second an administrator
SeedDb ==
  [EmptyDb EXCEPT
     !.users = <<[username |-> "arjun", email |-> "arjun@example.com",
                  is_admin |-> FALSE],
                 [username |-> "admin", email |-> "admin@example.com",
                  is_admin |-> TRUE]>>]

\* the Authorization header: none, or a bearer token signed by the server
\* (an expired, blacklisted or forged token is verified to None like a token
\* of the wrong type, and is treated by the callers like no token)
NoToken == [kind |-> "none"]

Token(type, user_id) == [kind |-> "jwt", type |-> type, user_id |-> user_id]

Tokens == {NoToken, Token("access", 1), Token("access", 2), Token("refresh", 1)}

\* the None that verify_jwt_token returns
NoPayload == [kind |-> "none"]

\* verify_jwt_token(token, verify_type): the payload or None
verify_jwt_token(token, verify_type) ==
  IF verify_type # NoneVal /\ token.type # verify_type THEN NoPayload ELSE token

\* the jwt_required decorator: the 401 it answers, or the call of the route
\* with g.user_id set (0 when it is left unset)
jwt_required(token, refresh, optional) ==
  LET token_type == IF refresh THEN "refresh" ELSE "access"
      called(g_user_id) == [status |-> 200, g_user_id |-> g_user_id]
      rejected == [status |-> 401, g_user_id |-> 0]
  IN IF token.kind = "none"
     THEN IF optional THEN called(0) ELSE rejected
     ELSE IF verify_jwt_token(token, token_type).kind = "none"
     THEN IF optional THEN called(0) ELSE rejected
     ELSE called(token.user_id)

\* get_current_user_id(): g.user_id, else the user of the Authorization
\* header's token, verified without a type; 0 is None
get_current_user_id(g_user_id, token) ==
  IF g_user_id # 0 THEN g_user_id
  ELSE IF token.kind = "jwt" /\ verify_jwt_token(token, NoneVal).kind # "none"
  THEN token.user_id
  ELSE 0

\* user_id of a route decorated with jwt_required(optional=True)
OptionalUser(token) ==
  get_current_user_id(jwt_required(token, FALSE, TRUE).g_user_id, token)

\* an early return of the chat route
Reject(status, stage, keys) ==
  [status |-> status, stage |-> stage, keys |-> keys]

\* the chat route up to the try block: the response it returns early, or
\* stage "handled" with the conversation it found (0 for none)
ValidateChat(body, user_id, database) ==
  IF body.kind = "empty"
  THEN Reject(400, "invalid_request", {"error", "details", "request_id"})
  ELSE IF body.kind = "array"
  \* data.get raises AttributeError, which Flask answers with 500
  THEN Reject(500, "unhandled_exception", {})
  ELSE IF \E f \in {"message", "category", "topic"} : ~Truthy(body[f])
  THEN Reject(400, "missing_fields", {"error", "details", "request_id"})
  ELSE IF ~get_category_by_id(body.category.value)
  THEN Reject(400, "invalid_category", {"error"})
  ELSE IF ~get_topic_info(body.topic.value, body.category.value)
  THEN Reject(400, "invalid_topic", {"error"})
  ELSE LET is_admin == user_id # 0 /\ database.users[user_id].is_admin
           conversation == IF body.conversation_id \in 1..Len(database.conversations)
                           THEN body.conversation_id ELSE 0
       IN IF /\ conversation # 0
             /\ user_id # 0
             /\ database.conversations[conversation].user_id # 0
             /\ database.conversations[conversation].user_id # user_id
             /\ ~is_admin
          THEN Reject(403, "forbidden", {"error"})
          ELSE [status |-> 200, stage |-> "handled", keys |-> {},
                conversation |-> conversation]

\* the conversation and the chat message the route commits
SaveChat(database, user_id, conversation, category, topic, message) ==
  LET convs == IF conversation = 0
               THEN Append(database.conversations,
                           [user_id |-> user_id, category |-> category,
                            topic |-> topic, title |-> "New Conversation"])
               ELSE database.conversations
      cid == IF conversation = 0 THEN Len(convs) ELSE conversation
      msgs == Append(database.messages,
                     [user_id |-> user_id, conversation_id |-> cid,
                      category |-> category, topic |-> topic])
      count == Cardinality({i \in 1..Len(msgs) : msgs[i].conversation_id = cid})
      \* generate_title: the first message becomes the title
      titled == IF count = 1 /\ convs[cid].title = "New Conversation"
                THEN [convs EXCEPT ![cid].title = message.text]
                ELSE convs
  IN [database EXCEPT !.conversations = titled, !.messages = msgs]

SuccessKeys ==
  {"response", "timestamp", "category", "topic", "provider", "response_time",
   "conversation"}

ErrorKeys == {"response", "timestamp", "error", "category", "topic"}

\* the short-query test of the route and the model name it records
RouteIsShortQuery(m) ==
  \/ m.words <= 3
  \/ m.text \in {"hi", "hello", "hey", "namaste", "ram ram", "jai shree krishna",
                  "jai shree ram"}

RecordedModel(m) ==
  IF RouteIsShortQuery(m) THEN "mistral-small-latest" ELSE "mistral-large-latest"

\* an early return: nothing but the response
ChatRejected ==
  /\ requests_made < MaxApiRequests
  /\ \E body \in RouteBodies, token \in Tokens :
     \E user_id \in {OptionalUser(token)} :
     \E v \in {ValidateChat(body, user_id, db)} :
       /\ v.stage # "handled"
       /\ http' = [route |-> "chat", n |-> requests_made + 1, body |-> body,
                   token |-> token,
                   user_id |-> IF v.stage \in {"invalid_request", "unhandled_exception",
                                               "missing_fields"}
                               THEN 0 ELSE user_id,
                   status |-> v.status, stage |-> v.stage, keys |-> v.keys,
                   provider_calls |-> 0]
  /\ requests_made' = requests_made + 1
  /\ UNCHANGED <<mistralVars, ANALYTICS_STORE, mistral_api_available, RESPONSE_CACHE,
                 now, chat, swept, pureVars, procs, db>>

\* message.lower() raises AttributeError inside generate_chat_response when
\* the message is not a string: the except branch of the route answers
ChatRaises ==
  /\ requests_made < MaxApiRequests
  /\ \E body \in RouteBodies, token \in Tokens :
     \E user_id \in {OptionalUser(token)} :
     \E v \in {ValidateChat(body, user_id, db)} :
       /\ v.stage = "handled"
       /\ body.message.kind = "number"
       /\ http' = [route |-> "chat", n |-> requests_made + 1, body |-> body,
                   token |-> token, user_id |-> user_id,
                   status |-> 200, stage |-> "exception", keys |-> ErrorKeys,
                   provider_calls |-> 0, reply |-> <<>>, lookup |-> "none",
                   recorded_model |-> NoneVal, used_model |-> NoneVal]
       /\ ANALYTICS_STORE' = track_error(ANALYTICS_STORE, "AttributeError")
  /\ requests_made' = requests_made + 1
  /\ UNCHANGED <<mistralVars, mistral_api_available, RESPONSE_CACHE, now, chat, swept,
                 pureVars, procs, db>>

\* the try block with a string message: generate_chat_response,
\* track_response_time, then the commit, which succeeds or raises
ChatHandled ==
  /\ requests_made < MaxApiRequests
  /\ \E body \in RouteBodies, token \in Tokens, commit_ok \in BOOLEAN :
     \E user_id \in {OptionalUser(token)} :
     \E v \in {ValidateChat(body, user_id, db)} :
       /\ v.stage = "handled"
       /\ body.message.kind = "string"
       /\ \E c \in {CallFor(body.category.value, body.topic.value, body.message.value)} :
          \E o \in RouteOutcomes, elapsed \in 0..Min(1, MaxTime - now) :
          \E r \in {generate_chat_response(RESPONSE_CACHE, now, mistral_api_available,
                                           ANALYTICS_STORE, c,
                                           [i \in 1..c.params.max_retries |-> o],
                                           elapsed)} :
            /\ RESPONSE_CACHE' = r.cache
            /\ now' = IF r.provider_calls > 0 THEN now + elapsed ELSE now
            /\ chat' = [response |-> r.response_data.response, lookup |-> r.lookup,
                        provider_calls |-> r.provider_calls, key |-> r.key,
                        expired_seen |-> chat.expired_seen \/ r.lookup = "expired"]
            /\ IF commit_ok
               THEN /\ ANALYTICS_STORE' =
                         track_response_time(r.store, body.category.value,
                                             body.topic.value,
                                             RecordedModel(body.message.value))
                    /\ db' = SaveChat(db, user_id, v.conversation, body.category.value,
                                      body.topic.value, body.message.value)
                    /\ http' = [route |-> "chat", n |-> requests_made + 1, body |-> body,
                                token |-> token, user_id |-> user_id,
                                status |-> 200, stage |-> "answered",
                                keys |-> SuccessKeys,
                                provider_calls |-> r.provider_calls,
                                reply |-> r.response_data.response,
                                lookup |-> r.lookup,
                                recorded_model |-> RecordedModel(body.message.value),
                                used_model |-> IF r.provider_calls > 0
                                               THEN c.params.model ELSE NoneVal]
               ELSE /\ ANALYTICS_STORE' =
                         track_error(track_response_time(r.store, body.category.value,
                                                         body.topic.value,
                                                         RecordedModel(body.message.value)),
                                     "OperationalError")
                    /\ db' = db
                    /\ http' = [route |-> "chat", n |-> requests_made + 1, body |-> body,
                                token |-> token, user_id |-> user_id,
                                status |-> 200, stage |-> "exception",
                                keys |-> ErrorKeys,
                                provider_calls |-> r.provider_calls,
                                reply |-> r.response_data.response,
                                lookup |-> r.lookup,
                                recorded_model |-> RecordedModel(body.message.value),
                                used_model |-> IF r.provider_calls > 0
                                               THEN c.params.model ELSE NoneVal]
  /\ requests_made' = requests_made + 1
  /\ UNCHANGED <<mistralVars, mistral_api_available, swept, pureVars, procs>>

\* GET /api/conversations/<conversation_id>
get_conversation ==
  /\ requests_made < MaxApiRequests
  /\ \E conversation_id \in 1..2, token \in Tokens :
     \E user_id \in {OptionalUser(token)} :
       LET found == conversation_id \in 1..Len(db.conversations)
           owner == IF found THEN db.conversations[conversation_id].user_id ELSE 0
           is_admin == user_id # 0 /\ db.users[user_id].is_admin
           status == IF ~found THEN 404
                     ELSE IF user_id # 0
                     THEN IF owner # 0 /\ owner # user_id /\ ~is_admin THEN 403 ELSE 200
                     ELSE IF owner # 0 THEN 403 ELSE 200
       IN http' = [route |-> "get_conversation", n |-> requests_made + 1,
                   token |-> token, user_id |-> IF found THEN user_id ELSE 0,
                   conversation_id |-> conversation_id, status |-> status]
  /\ requests_made' = requests_made + 1
  /\ UNCHANGED <<mistralVars, ANALYTICS_STORE, mistral_api_available, RESPONSE_CACHE,
                 now, chat, swept, pureVars, procs, db>>

\* GET /api/auth/protected, a route behind the plain jwt_required
protected_route ==
  /\ requests_made < MaxApiRequests
  /\ \E token \in Tokens :
     \E d \in {jwt_required(token, FALSE, FALSE)} :
       http' = [route |-> "protected", n |-> requests_made + 1, token |-> token,
                user_id |-> d.g_user_id,
                status |-> IF d.status = 401 THEN 401
                           ELSE IF d.g_user_id \in 1..Len(db.users) THEN 200 ELSE 404]
  /\ requests_made' = requests_made + 1
  /\ UNCHANGED <<mistralVars, ANALYTICS_STORE, mistral_api_available, RESPONSE_CACHE,
                 now, chat, swept, pureVars, procs, db>>

\* GET /api/health
health_check ==
  /\ requests_made < MaxApiRequests
  /\ \E db_reachable \in BOOLEAN, metrics_ok \in BOOLEAN :
       LET ai_ok == mistral_api_available \/ perplexity_api_available
           status == IF ~ai_ok THEN "critical"
                     ELSE IF ~db_reachable THEN "degraded" ELSE "ok"
       IN http' = [route |-> "health", n |-> requests_made + 1,
                   status |-> IF status = "critical" THEN 503 ELSE 200,
                   health_data |->
                     [status |-> status, version |-> "1.0.0",
                      components |->
                        [database |-> IF db_reachable THEN "ok" ELSE "error",
                         ai_providers |-> IF ai_ok THEN "ok" ELSE "error",
                         cache |-> "ok",
                         system |-> IF metrics_ok THEN "ok" ELSE "unknown"]],
                   db_reachable |-> db_reachable]
  /\ requests_made' = requests_made + 1
  /\ UNCHANGED <<mistralVars, ANALYTICS_STORE, mistral_api_available, RESPONSE_CACHE,
                 now, chat, swept, pureVars, procs, db>>

ApiInit ==
  /\ MistralIdle
  /\ ANALYTICS_STORE = AnalyticsInit
  /\ mistral_api_available \in BOOLEAN
  /\ RESPONSE_CACHE = <<>>
  /\ now = 0
  /\ requests_made = 0
  /\ chat = NoChat
  /\ swept = NotSwept
  /\ PureIdle
  /\ ProcsIdle
  /\ db = SeedDb
  /\ http = NoHttp

ApiNext ==
  \/ ChatRejected
  \/ ChatRaises
  \/ ChatHandled
  \/ get_conversation
  \/ protected_route
  \/ health_check

SpecApi == ApiInit /\ [][ApiNext]_vars


(***************************************************************************)
(* SpecAnalytics: track_response_time and track_error called one after     *)
(* the other on the store of a fresh process.                              *)
(***************************************************************************)
\* the number of tracking calls looked at
MaxTracks == 4

TrackCategories == {"vedas", "puranas"}

TrackTopics == {<<"g", "i", "t", "a">>, <<"s", "h", "i", "v">>}

TrackModels == {"mistral-small-latest", "mistral-large-latest"}

TrackErrorTypes == {"timeout", "api_error"}

TrackResponseTime ==
  /\ requests_made < MaxTracks
  /\ \E category \in TrackCategories, topic \in TrackTopics, model \in TrackModels :
       ANALYTICS_STORE' = track_response_time(ANALYTICS_STORE, category, topic, model)
  /\ requests_made' = requests_made + 1
  /\ UNCHANGED <<mistralVars, mistral_api_available, RESPONSE_CACHE, now, chat, swept,
                 pureVars, procs, routeVars>>

TrackError ==
  /\ requests_made < MaxTracks
  /\ \E error_type \in TrackErrorTypes :
       ANALYTICS_STORE' = track_error(ANALYTICS_STORE, error_type)
  /\ requests_made' = requests_made + 1
  /\ UNCHANGED <<mistralVars, mistral_api_available, RESPONSE_CACHE, now, chat, swept,
                 pureVars, procs, routeVars>>

AnalyticsSpecInit ==
  /\ MistralIdle
  /\ ANALYTICS_STORE = AnalyticsInit
  /\ CacheIdle
  /\ PureIdle
  /\ ProcsIdle
  /\ RouteIdle

AnalyticsNext ==
  \/ TrackResponseTime
  \/ TrackError

SpecAnalytics == AnalyticsSpecInit /\ [][AnalyticsNext]_vars


(***************************************************************************)
(* SpecRace: the tracking calls of two chat requests handled by two        *)
(* threads of one process.  The store has no lock, so each statement       *)
(* `d[k] = d.get(k, 0) + 1` and `d[k] += 1` is a read followed by a write, *)
(* and the other thread may run between the two.  list.append is one step. *)
(***************************************************************************)
Threads == {1, 2}

\* the statements of track_response_time and of track_error, in order
Statements(fn) ==
  IF fn = "track_response_time"
  THEN <<"append", "category_get", "category_set", "topic_get", "topic_set",
         "total_load", "total_store", "successful_load", "successful_store", "done">>
  ELSE <<"errors_get", "errors_set", "total_load", "total_store", "done">>

\* the statement after pc
NextStatement(fn, at) ==
  LET i == CHOOSE j \in 1..Len(Statements(fn)) : Statements(fn)[j] = at
  IN Statements(fn)[i + 1]

\* a call about to run its first statement
TrackingCalls ==
  {[fn |-> "track_response_time", category |-> c, topic |-> <<"g", "i", "t", "a">>,
    key |-> "mistral-large-latest", at |-> "append", tmp |-> 0] : c \in TrackCategories}
  \cup
  {[fn |-> "track_error", category |-> "vedas", topic |-> <<"g", "i", "t", "a">>,
    key |-> e, at |-> "errors_get", tmp |-> 0] : e \in TrackErrorTypes}

\* ANALYTICS_STORE['response_times'].append({...})
RaceAppend(t) ==
  /\ procs[t].at = "append"
  /\ ANALYTICS_STORE' =
       [ANALYTICS_STORE EXCEPT
          !.response_times = Append(@, [category |-> procs[t].category,
                                        topic |-> procs[t].topic,
                                        model |-> procs[t].key])]
  /\ procs' = [procs EXCEPT ![t].at = NextStatement(procs[t].fn, procs[t].at)]
  /\ UNCHANGED <<mistralVars, cacheVars, pureVars, routeVars>>

\* the right-hand side of a counting statement reads the current count
RaceRead(t) ==
  /\ procs[t].at \in {"category_get", "topic_get", "errors_get", "total_load",
                       "successful_load"}
  /\ LET p == procs[t]
         read == CASE p.at = "category_get" ->
                        DictGet(ANALYTICS_STORE.requests_per_category, p.category, 0)
                   [] p.at = "topic_get" ->
                        DictGet(ANALYTICS_STORE.requests_per_topic,
                                <<p.category, p.topic>>, 0)
                   [] p.at = "errors_get" -> DictGet(ANALYTICS_STORE.errors, p.key, 0)
                   [] p.at = "total_load" -> ANALYTICS_STORE.total_requests
                   [] p.at = "successful_load" -> ANALYTICS_STORE.successful_requests
     IN procs' = [procs EXCEPT ![t].tmp = read,
                               ![t].at = NextStatement(p.fn, p.at)]
  /\ UNCHANGED <<mistralVars, ANALYTICS_STORE, cacheVars, pureVars, routeVars>>

\* the assignment stores the count read earlier plus one
RaceWrite(t) ==
  /\ procs[t].at \in {"category_set", "topic_set", "errors_set", "total_store",
                       "successful_store"}
  /\ LET p == procs[t]
     IN /\ ANALYTICS_STORE' =
             CASE p.at = "category_set" ->
                    [ANALYTICS_STORE EXCEPT
                       !.requests_per_category = DictPut(@, p.category, p.tmp + 1)]
               [] p.at = "topic_set" ->
                    [ANALYTICS_STORE EXCEPT
                       !.requests_per_topic =
                          DictPut(@, <<p.category, p.topic>>, p.tmp + 1)]
               [] p.at = "errors_set" ->
                    [ANALYTICS_STORE EXCEPT !.errors = DictPut(@, p.key, p.tmp + 1)]
               [] p.at = "total_store" ->
                    [ANALYTICS_STORE EXCEPT !.total_requests = p.tmp + 1]
               [] p.at = "successful_store" ->
                    [ANALYTICS_STORE EXCEPT !.successful_requests = p.tmp + 1]
        /\ procs' = [procs EXCEPT ![t].at = NextStatement(p.fn, p.at)]
  /\ UNCHANGED <<mistralVars, cacheVars, pureVars, routeVars>>

RaceInit ==
  /\ MistralIdle
  /\ ANALYTICS_STORE = AnalyticsInit
  /\ CacheIdle
  /\ PureIdle
  /\ procs \in [Threads -> TrackingCalls]
  /\ RouteIdle

RaceNext ==
  \E t \in Threads :
    \/ RaceAppend(t)
    \/ RaceRead(t)
    \/ RaceWrite(t)

SpecRace == RaceInit /\ [][RaceNext]_vars


(***************************************************************************)
(* SpecRegister: POST /api/auth/register, each request handled by its own  *)
(* thread.  The two existence queries and the commit are three separate    *)
(* statements on the database, and other requests may run between them.    *)
(* The unique constraints of User.username and User.email are enforced by  *)
(* the database at commit.                                                 *)
(***************************************************************************)
\* the number of register requests looked at
MaxRegisters == 3

\* data.get('username'), "" when missing
RegisterUsernames == {"", "arjun", "bhima"}

RegisterEmails == {"arjun@example.com", "bhima@example.com"}

\* User.query.filter_by(username=username).first() is not None
UsernameExists(database, username) ==
  \E i \in 1..Len(database.users) : database.users[i].username = username

\* User.query.filter_by(email=email).first() is not None
EmailExists(database, email) ==
  \E i \in 1..Len(database.users) : database.users[i].email = email

\* a request arrives: the field validation answers, or the checks begin
RegisterArrives ==
  /\ Len(procs) < MaxRegisters
  /\ \E username \in RegisterUsernames, email \in RegisterEmails :
       procs' = Append(procs,
                       [username |-> username, email |-> email,
                        at |-> IF username = "" THEN "done" ELSE "check_username",
                        status |-> IF username = "" THEN 400 ELSE 0])
  /\ UNCHANGED <<mistralVars, ANALYTICS_STORE, cacheVars, pureVars, routeVars>>

\* if User.query.filter_by(username=username).first(): return 400
RegisterCheckUsername ==
  \E i \in 1..Len(procs) :
    /\ procs[i].at = "check_username"
    /\ procs' = IF UsernameExists(db, procs[i].username)
                THEN [procs EXCEPT ![i].at = "done", ![i].status = 400]
                ELSE [procs EXCEPT ![i].at = "check_email"]
    /\ UNCHANGED <<mistralVars, ANALYTICS_STORE, cacheVars, pureVars, routeVars>>

\* if User.query.filter_by(email=email).first(): return 400
RegisterCheckEmail ==
  \E i \in 1..Len(procs) :
    /\ procs[i].at = "check_email"
    /\ procs' = IF EmailExists(db, procs[i].email)
                THEN [procs EXCEPT ![i].at = "done", ![i].status = 400]
                ELSE [procs EXCEPT ![i].at = "commit"]
    /\ UNCHANGED <<mistralVars, ANALYTICS_STORE, cacheVars, pureVars, routeVars>>

\* db.session.add(user); db.session.commit(): the row is inserted and the
\* route answers 201, or a unique constraint fails, commit raises
\* IntegrityError, which nothing catches, and Flask answers 500
RegisterCommit ==
  \E i \in 1..Len(procs) :
    /\ procs[i].at = "commit"
    /\ IF UsernameExists(db, procs[i].username) \/ EmailExists(db, procs[i].email)
       THEN /\ procs' = [procs EXCEPT ![i].at = "done", ![i].status = 500]
            /\ db' = db
       ELSE /\ procs' = [procs EXCEPT ![i].at = "done", ![i].status = 201]
            /\ db' = [db EXCEPT !.users = Append(@, [username |-> procs[i].username,
                                                     email |-> procs[i].email,
                                                     is_admin |-> FALSE])]
    /\ UNCHANGED <<mistralVars, ANALYTICS_STORE, cacheVars, pureVars, http>>

RegisterInit ==
  /\ MistralIdle
  /\ ANALYTICS_STORE = AnalyticsInit
  /\ CacheIdle
  /\ PureIdle
  /\ ProcsIdle
  /\ RouteIdle

RegisterNext ==
  \/ RegisterArrives
  \/ RegisterCheckUsername
  \/ RegisterCheckEmail
  \/ RegisterCommit

SpecRegister == RegisterInit /\ [][RegisterNext]_vars


(***************************************************************************)
(* Properties of the provider client (SpecRetry).                          *)
(***************************************************************************)
RECURSIVE SumSeq(_)
SumSeq(q) == IF q = <<>> THEN 0 ELSE Head(q) + SumSeq(Tail(q))

\* time slept between attempt i and the next attempt (or the return)
WaitAfter(i) ==
  SumSeq(trace[i].post) + (IF i < Len(trace) THEN SumSeq(trace[i + 1].pre) ELSE 0)

\* number of time.sleep calls of the call so far
SleepCalls == SumSeq([i \in 1..Len(trace) |-> Len(trace[i].pre) + Len(trace[i].post)])

IsRetryable(o) ==
  \/ o.kind \in {"timeout", "connection"}
  \/ o.kind = "http" /\ (o.status = 429 \/ (o.status >= 500 /\ o.status < 600))

IsCompletion(o) ==
  o.kind = "http" /\ o.status = 200 /\ o.body \in {"completion_with_usage", "completion"}

RetryableErrorCodes == {"timeout", "connection", "http_429", "http_500", "http_503"}

\* the category a prompt is built for, as the fallback table knows it
ExpectedCategory(category) ==
  IF category \in DOMAIN category_personalities THEN category ELSE "general"

\* C1: whatever the provider answers, generate_mistral_response returns a
\* response object with a 'response' text and no exception escapes it.
C1_AlwaysReturnsResponse ==
  /\ pc # "raised"
  /\ (pc = "returned" => "response" \in DOMAIN result)

\* C2: when every attempt is answered HTTP 429 with Retry-After: 2, at least
\* 2 seconds pass between consecutive attempts and, after max_retries
\* attempts, the fallback is returned with a retryable error code, without
\* raising.
C2_RateLimitedFallback ==
  (/\ Len(trace) >= 1
   /\ \A i \in 1..Len(trace) : trace[i].outcome = Http(429, <<"2">>, "", "", ""))
  => /\ pc # "raised"
     /\ \A i \in 1..(Len(trace) - 1) : WaitAfter(i) >= 2 * Scale
     /\ (pc = "running" => Len(trace) < call.params.max_retries)
     /\ (pc = "returned" =>
           /\ Len(trace) = call.params.max_retries
           /\ "error" \in DOMAIN result
           /\ result.error \in RetryableErrorCodes)

\* C3: an HTTP error status other than 429 and 5xx on the first attempt ends
\* the call after exactly one attempt, without any sleep, with the fallback
\* response tagged 'api_error'.
C3_NonRetryableFailsFast ==
  (/\ Len(trace) >= 1
   /\ trace[1].outcome.kind = "http"
   /\ trace[1].outcome.status >= 400 /\ trace[1].outcome.status < 500
   /\ trace[1].outcome.status # 429)
  => /\ pc = "returned"
     /\ Len(trace) = 1
     /\ SleepCalls = 0
     /\ "error" \in DOMAIN result /\ result.error = "api_error"
     /\ result.response = FallbackResponse(ExtractCategory(call.system_prompt),
                                           call.is_short_query)

C3_Witness ==
  /\ pc = "returned"
  /\ Len(trace) = 1
  /\ trace[1].outcome.status = 401

\* C4: a call makes at least one and at most max_retries attempts (2 for the
\* short and small tiers, 3 for the medium and large tiers); every timeout,
\* connection error, HTTP 5xx and HTTP 429 consumes exactly one attempt and
\* is followed by another attempt while attempts remain.
C4_AttemptsBounded ==
  /\ Len(trace) <= call.params.max_retries
  /\ call.params.max_retries =
       (IF call.params.model = "mistral-small-latest" THEN 2 ELSE 3)
  /\ (pc # "running" => Len(trace) >= 1)
  /\ retry_count = Len(SelectSeq(trace, LAMBDA a : IsRetryable(a.outcome)))
  /\ (/\ Len(trace) >= 1
      /\ IsRetryable(trace[Len(trace)].outcome)
      /\ Len(trace) < call.params.max_retries) => pc = "running"

\* C5: after an HTTP 429 the client waits the Retry-After value when the
\* header is present and otherwise backoff_factor^attempt; after a timeout,
\* a connection error or an HTTP 5xx it waits backoff_factor^attempt.
C5_WaitBetweenAttempts ==
  \A i \in 1..(Len(trace) - 1) :
    LET o == trace[i].outcome
        factor == call.params.backoff_factor
    IN IF o.kind = "http" /\ o.status = 429 /\ o.retry_after # NoHeader
       THEN WaitAfter(i) = ParseInt(o.retry_after).value * Scale
       ELSE IF o.kind = "http" /\ o.status = 429
       THEN WaitAfter(i) \in {PowScaled(factor, i - 1), PowScaled(factor, i)}
       ELSE WaitAfter(i) = PowScaled(factor, i)

\* C6: an HTTP 200 with a well-formed completion, after any number of
\* retryable failures, is the last attempt of the call; the call returns its
\* content with the model, the complexity score and the token usage, without
\* an 'error' field, and no error is tracked.
C6_CompletionIsReturned ==
  \A i \in 1..Len(trace) :
    IsCompletion(trace[i].outcome) =>
      /\ i = Len(trace)
      /\ pc = "returned"
      /\ DOMAIN result = {"response", "model", "complexity_score", "token_usage"}
      /\ result.response = <<"completion", trace[i].outcome.content>>
      /\ result.model = call.params.model
      /\ result.complexity_score = call.content_analysis.complexity
      /\ result.token_usage = (IF trace[i].outcome.body = "completion_with_usage"
                               THEN <<"usage">> ELSE <<>>)
      /\ ANALYTICS_STORE = AnalyticsInit

C6_Witness ==
  /\ pc = "returned"
  /\ Len(trace) >= 2
  /\ IsCompletion(trace[Len(trace)].outcome)
  /\ \A i \in 1..(Len(trace) - 1) : IsRetryable(trace[i].outcome)

\* C7: the category the client extracts from the system prompt is the one the
\* prompt was built for (general for an unknown category), so the fallback
\* returned on failure is that category's, short for short queries and long
\* otherwise.
C7_FallbackOfRequestCategory ==
  (pc = "returned" /\ "error" \in DOMAIN result)
  => /\ ExtractCategory(call.system_prompt) = ExpectedCategory(call.category)
     /\ result.response = FallbackResponse(ExpectedCategory(call.category),
                                           call.is_short_query)

(***************************************************************************)
(* Properties of the response cache (SpecChat, SpecSweep).                 *)
(***************************************************************************)
\* C8: a call of generate_chat_response whose key is in the cache returns the
\* stored reply without a provider call and leaves the cache unchanged while
\* less than CACHE_TTL has passed since the reply was stored, and calls the
\* provider again once CACHE_TTL has passed; a stored reply expires CACHE_TTL
\* after it was stored.
C8_CacheServesFreshOnly ==
  [][ (requests_made' # requests_made) =>
        LET i == CacheIndex(RESPONSE_CACHE, chat'.key)
            j == CacheIndex(RESPONSE_CACHE', chat'.key)
        IN /\ (i # 0 /\ now < RESPONSE_CACHE[i].expiry) =>
                /\ chat'.response = RESPONSE_CACHE[i].response
                /\ chat'.provider_calls = 0
                /\ RESPONSE_CACHE' = RESPONSE_CACHE
           /\ (i # 0 /\ now >= RESPONSE_CACHE[i].expiry) =>
                /\ chat'.provider_calls >= 1
                /\ chat'.lookup = "expired"
           /\ (RESPONSE_CACHE' # RESPONSE_CACHE) =>
                /\ j # 0
                /\ RESPONSE_CACHE'[j].response = chat'.response
                /\ RESPONSE_CACHE'[j].expiry = now' + CACHE_TTL
    ]_vars

C8_Witness ==
  /\ chat.lookup = "hit"
  /\ chat.provider_calls = 0
  /\ chat.expired_seen

\* C9: the response cache never holds more than CACHE_MAX_SIZE entries.
C9_CacheBounded == Len(RESPONSE_CACHE) <= CACHE_MAX_SIZE

\* C10: clean_expired_cache_entries leaves no entry that expired before the
\* current time and at most CACHE_MAX_SIZE entries; every unexpired entry it
\* evicts expires no later than every entry it keeps; and when at most
\* CACHE_MAX_SIZE entries are unexpired it keeps exactly those, unchanged.
C10_SweepPostcondition ==
  swept.done =>
    LET Items(q) == {q[i] : i \in 1..Len(q)}
        live == SelectSeq(swept.before, LAMBDA e : e.expiry >= swept.time)
    IN /\ \A e \in Items(RESPONSE_CACHE) : ~(e.expiry < swept.time)
       /\ Len(RESPONSE_CACHE) <= CACHE_MAX_SIZE
       /\ Items(RESPONSE_CACHE) \subseteq Items(swept.before)
       /\ \A e \in Items(live) \ Items(RESPONSE_CACHE), k \in Items(RESPONSE_CACHE) :
            e.expiry <= k.expiry
       /\ (Len(live) <= CACHE_MAX_SIZE => RESPONSE_CACHE = live)

C10_Witness ==
  /\ swept.done
  /\ Len(SelectSeq(swept.before, LAMBDA e : e.expiry >= swept.time)) > CACHE_MAX_SIZE
  /\ \E i \in 1..Len(swept.before) : swept.before[i].expiry < swept.time
  /\ Len(RESPONSE_CACHE) = CACHE_MAX_SIZE


\* C11: with no provider API key configured, every call of
\* generate_chat_response returns the configuration-error message, makes no
\* provider HTTP call, performs no retry and stores nothing in the cache.
C11_NoKeyConfigurationError ==
  ~mistral_api_available =>
    /\ RESPONSE_CACHE = <<>>
    /\ ANALYTICS_STORE = AnalyticsInit
    /\ chat # NoChat =>
         /\ chat.response = <<"Mistral AI API key is not configured.">>
         /\ chat.provider_calls = 0
         /\ chat.lookup = "absent"

\* several requests have been answered without a key, some after time passed
C11_Witness ==
  /\ ~mistral_api_available
  /\ requests_made >= 2
  /\ now > 0
  /\ chat.response = ConfigErrorMessage

(***************************************************************************)
(* Properties of the prompt builder, the topic resolver, the classifier    *)
(* and the parameter table (SpecPure).                                     *)
(***************************************************************************)
\* topic.lower().replace(" ", "_").replace("-", "_"), and the same without
\* "_general"
NormalizedTopic(topic) == ReplaceChar(ReplaceChar(Lower(topic), " ", "_"), "-", "_")

BaseTopic(topic) ==
  IF IsSubstr(GeneralSuffix, NormalizedTopic(topic))
  THEN RemoveAll(GeneralSuffix, NormalizedTopic(topic))
  ELSE NormalizedTopic(topic)

\* C13: a message of at most two words, or one that is an entry of the
\* greeting list, is classified as a short query and its prompt carries the
\* brevity instruction and not the depth instruction; a message that is not
\* classified as short gets the depth instruction and not the brevity one.
C13_ShortQueryBrevity ==
  output.op = "prompt" =>
    LET m == input.message
        greeting == m.text \in {"hi", "hello", "hey", "namaste", "ram ram",
                                "jai shree krishna", "jai shree ram", "how are you",
                                "good morning", "good afternoon", "good evening",
                                "greetings", "om namah shivaya", "hare krishna"}
    IN /\ (m.words <= 2 \/ greeting) =>
            /\ output.is_short_query
            /\ output.system_prompt.length = "brevity"
       /\ ~output.is_short_query => output.system_prompt.length = "depth"
       /\ output.system_prompt.length \in {"brevity", "depth"}

\* a two-word message that is no greeting has been given its prompt
C13_Witness ==
  /\ output.op = "prompt"
  /\ input.message.words = 2
  /\ input.message.text \notin simple_greetings
  /\ output.is_short_query
  /\ output.system_prompt.length = "brevity"

\* C14: for a known category and a topic that is neither a key of the alias
\* table nor the topic id of a guidance entry of that category, the prompt is
\* the category's persona and the length instruction with no topic guidance;
\* for an unknown category the persona is the generic "Veda AI".
C14_UnknownTopicNoGuidance ==
  output.op = "prompt" =>
    LET known == input.category \in DOMAIN category_personalities
        n == NormalizedTopic(input.topic)
        alias == n \in DOMAIN topic_mapping \/ BaseTopic(input.topic) \in DOMAIN topic_mapping
        own_entry == \E i \in 1..Len(topic_guidance) :
                       /\ topic_guidance[i].category = input.category
                       /\ topic_guidance[i].topic = n
    IN /\ (known /\ ~alias /\ ~own_entry) =>
            /\ output.system_prompt.persona = category_personalities[input.category].name
            /\ output.system_prompt.guidance = "none"
       /\ ~known => output.system_prompt.persona = "Veda AI"

\* C15: for every category and every key of the alias table, the guidance of
\* the alias is the guidance of the canonical topic id it maps to.
C15_AliasSameAsCanonical ==
  output.op = "guidance" =>
    output.guidance = get_topic_specific_guidance(input.category,
                                                  topic_mapping[input.topic])

\* C16: the complexity score of analyze_content is an integer from 1 to 5.
C16_ComplexityInRange ==
  output.op = "analyze" => output.content_analysis.complexity \in 1..5

\* both ends of the range are produced
C16_Witness ==
  /\ output.op = "analyze"
  /\ output.content_analysis.complexity = 1
  /\ input.message.text = "hi"
  /\ input.system_text.terms = {}

\* the score as the heuristic is described: base 1 and one point for each of
\* long sentences, a long message, a domain keyword, several question marks
ClaimedComplexity(m, system_text) ==
  LET total == SumWords(Sentences(m))
      count == Max(1, Len(Sentences(m)))
  IN Min(5, 1 + (IF total > 8 * count THEN 1 ELSE 0)
               + (IF m.words > 30 THEN 1 ELSE 0)
               + (IF m.terms \cup system_text.terms # {} THEN 1 ELSE 0)
               + (IF QuestionCount(m) > 1 THEN 1 ELSE 0))

\* C17: the complexity score is 1, plus 1 for an average sentence length over
\* the threshold, plus 1 for a message length over the threshold, plus 1 if a
\* domain keyword is present, plus 1 for more than one question mark, capped
\* at 5.
C17_ComplexityFormula ==
  output.op = "analyze" =>
    output.content_analysis.complexity = ClaimedComplexity(input.message, input.system_text)

\* C18: the generation parameters are a fixed total function of the short
\* flag, the complexity, the extracted category and the multi-question flag:
\* short -> (mistral-small-latest, 250, 2, 1.5, 15); else large exactly when
\* complexity >= 4 with category vedas or knowledge, or several questions;
\* else medium exactly when complexity >= 3 or category vedas or knowledge;
\* else the small 800-token tuple.
C18_ParameterTable ==
  output.op = "select" =>
    LET a == input.content_analysis
        p == output.params
        deep == a.category \in {"vedas", "knowledge"}
        large == (a.complexity >= 4 /\ deep) \/ a.is_multi_question
        medium == ~large /\ (a.complexity >= 3 \/ deep)
    IN /\ input.is_short_query =>
            p = [model |-> "mistral-small-latest", max_tokens |-> 250,
                 max_retries |-> 2, backoff_factor |-> 15 * 1000, timeout |-> 15]
       /\ (~input.is_short_query /\ large) =>
            (p.model = "mistral-large-latest" /\ p.max_tokens = 1500)
       /\ (~input.is_short_query /\ medium) =>
            (p.model = "mistral-medium-latest" /\ p.max_tokens = 1200)
       /\ (~input.is_short_query /\ ~large /\ ~medium) =>
            (p.model = "mistral-small-latest" /\ p.max_tokens = 800)

\* a simple multi-question message of another category got the large tuple
C18_Witness ==
  /\ output.op = "select"
  /\ ~input.is_short_query
  /\ input.content_analysis.is_multi_question
  /\ input.content_analysis.complexity = 1
  /\ input.content_analysis.category = "epics"
  /\ output.params.max_tokens = 1500


(***************************************************************************)
(* Properties of the routes (SpecApi).                                     *)
(***************************************************************************)
\* the request lacks message, category or topic, names a category that is
\* not a category id, or a topic that is not a topic of that category
InvalidChatRequest(body) ==
  \/ body.kind # "object"
  \/ \E f \in {"message", "category", "topic"} : body[f].kind \in {"absent", "empty"}
  \/ body.category.value \notin {"vedas", "puranas", "epics", "knowledge", "characters"}
  \/ body.topic.value \notin categories[body.category.value]

\* C12: a chat request whose message, category or topic is missing, whose
\* category is unknown or whose topic is not a topic of the category is
\* answered 400 before generate_chat_response is called: no provider call,
\* nothing cached, no analytics counter changed, nothing persisted.
C12_InvalidRequestRejected ==
  [][(/\ requests_made' # requests_made
      /\ http'.route = "chat"
      /\ InvalidChatRequest(http'.body))
     => /\ http'.status = 400
        /\ http'.provider_calls = 0
        /\ chat' = chat
        /\ RESPONSE_CACHE' = RESPONSE_CACHE
        /\ ANALYTICS_STORE' = ANALYTICS_STORE
        /\ db' = db]_vars

\* C19: a chat request that passes validation and the ownership check is
\* answered 200 with response, category, topic, provider and response_time
\* in the body, whether the provider succeeded, the fallback was returned or
\* an exception occurred while the request was handled.
C19_HandledRequestEnvelope ==
  (http.route = "chat" /\ http.stage \in {"answered", "exception"}) =>
    /\ http.status = 200
    /\ {"response", "category", "topic", "provider", "response_time"} \subseteq http.keys

C21_FallbackNeverCached ==
  \A i \in 1..Len(RESPONSE_CACHE) : RESPONSE_CACHE[i].response[1] # "fallback"

\* the message has no indicator term, at most one question mark, one short
\* sentence
SimpleSingleQuestion(m) ==
  /\ m.terms = {}
  /\ QuestionCount(m) <= 1
  /\ m.words <= 8
  /\ Len(Sentences(m)) <= 1

\* C23: a non-short, simple single-question message in the puranas, epics or
\* characters category, with the prompt of build_system_prompt, is sent with
\* the small tier (mistral-small-latest, 800 tokens, 2 retries, backoff 1.5,
\* timeout 25).
C23_SimpleQueriesGetSmallTier ==
  (/\ output.op = "call"
   /\ input.category \in {"puranas", "epics", "characters"}
   /\ input.topic \in categories[input.category]
   /\ ~output.call.is_short_query
   /\ SimpleSingleQuestion(input.message))
  => output.call.params =
       [model |-> "mistral-small-latest", max_tokens |-> 800, max_retries |-> 2,
        backoff_factor |-> 15 * 1000, timeout |-> 25]


(***************************************************************************)
(* Properties of the analytics store (SpecAnalytics, SpecRace).            *)
(***************************************************************************)
RECURSIVE SumOver(_, _)
SumOver(d, keys) ==
  IF keys = {} THEN 0
  ELSE LET k == CHOOSE x \in keys : TRUE IN d[k] + SumOver(d, keys \ {k})

\* the sum of the counts of a dict
SumValues(d) == SumOver(d, DOMAIN d)

\* C28: after any sequence of track_response_time and track_error calls made
\* one after the other, total_requests is successful_requests plus the sum of
\* the error counts, and successful_requests is both the number of recorded
\* response times and the sum of the per-category counts.
C28_CountersAddUp ==
  /\ ANALYTICS_STORE.total_requests =
       ANALYTICS_STORE.successful_requests + SumValues(ANALYTICS_STORE.errors)
  /\ ANALYTICS_STORE.successful_requests = Len(ANALYTICS_STORE.response_times)
  /\ ANALYTICS_STORE.successful_requests =
       SumValues(ANALYTICS_STORE.requests_per_category)

\* both kinds of call have been made, one category twice and one error twice
C28_Witness ==
  /\ requests_made = MaxTracks
  /\ ANALYTICS_STORE.total_requests = MaxTracks
  /\ \E k \in DOMAIN ANALYTICS_STORE.requests_per_category :
       ANALYTICS_STORE.requests_per_category[k] = 2
  /\ \E k \in DOMAIN ANALYTICS_STORE.errors : ANALYTICS_STORE.errors[k] = 2

\* both threads of SpecRace have returned from their tracking call
RaceDone == DOMAIN procs = Threads /\ \A t \in Threads : procs[t].at = "done"

\* the number of threads of SpecRace that ran fn
RaceCalls(fn) == Cardinality({t \in Threads : procs[t].fn = fn})

\* C30: when two chat requests are handled at the same time no analytics
\* update is lost: once both tracking calls have returned, every counter has
\* grown by the number of calls that count in it.
C30_NoLostUpdate ==
  RaceDone =>
    /\ ANALYTICS_STORE.total_requests = Cardinality(Threads)
    /\ ANALYTICS_STORE.successful_requests = RaceCalls("track_response_time")
    /\ Len(ANALYTICS_STORE.response_times) = RaceCalls("track_response_time")
    /\ SumValues(ANALYTICS_STORE.requests_per_category) = RaceCalls("track_response_time")
    /\ SumValues(ANALYTICS_STORE.requests_per_topic) = RaceCalls("track_response_time")
    /\ SumValues(ANALYTICS_STORE.errors) = RaceCalls("track_error")


(***************************************************************************)
(* Properties of what the routes persist, whom they serve and what they    *)
(* count (SpecApi).                                                        *)
(***************************************************************************)
\* the step is a chat request that went through generate_chat_response
ChatGenerated ==
  /\ requests_made' = requests_made + 1
  /\ http'.route = "chat"
  /\ http'.stage \in {"answered", "exception"}
  /\ http'.lookup # "none"

\* where the reply of a chat request came from
ReplyOrigin(h) ==
  IF h.lookup = "hit" THEN "cache"
  ELSE IF h.reply = ConfigErrorMessage THEN "config_error"
  ELSE IF h.reply = ErrorMessage THEN "error"
  ELSE IF h.reply[1] = "fallback" THEN "fallback"
  ELSE "provider"

\* C22: a chat request whose provider call ended in the fallback message,
\* the generic error message or the configuration-error message writes no
\* chat message row and no conversation row.
C22_OnlySuccessPersisted ==
  [][(ChatGenerated /\ ReplyOrigin(http') \in {"fallback", "error", "config_error"})
       => db' = db]_vars

\* C24: when the provider client was called for a chat request, the model
\* name the route records in analytics is the model the client used.
C24_RecordedModelIsUsedModel ==
  (http.route = "chat" /\ http.stage = "answered" /\ http.provider_calls > 0)
    => /\ ANALYTICS_STORE.response_times # <<>>
       /\ ANALYTICS_STORE.response_times[Len(ANALYTICS_STORE.response_times)].model
            = http.used_model

\* the holder of the token is the owner, or is an administrator
OwnerOrAdmin(token, owner, database) ==
  /\ token.kind = "jwt"
  /\ \/ token.user_id = owner
     \/ database.users[token.user_id].is_admin

\* C26: a conversation owned by a user is returned by get_conversation, and
\* gets a message appended through chat, only for a requester who is that
\* user or an administrator; an anonymous requester is neither.
C26_OwnedConversationIsPrivate ==
  [][requests_made' = requests_made + 1 =>
       /\ (http'.route = "get_conversation" /\ http'.status = 200)
            => LET owner == db.conversations[http'.conversation_id].user_id
               IN owner # 0 => OwnerOrAdmin(http'.token, owner, db)
       /\ (http'.route = "chat" /\ Len(db'.messages) > Len(db.messages))
            => LET cid == db'.messages[Len(db'.messages)].conversation_id
               IN (cid \in 1..Len(db.conversations) /\ db.conversations[cid].user_id # 0)
                    => OwnerOrAdmin(http'.token, db.conversations[cid].user_id, db)
    ]_vars

\* C27: a request that carries a refresh token is rejected or handled as
\* anonymous by the routes behind jwt_required without refresh=True, the
\* optional ones included.
C27_RefreshTokenIsNoIdentity ==
  (/\ http.route \in {"chat", "get_conversation", "protected"}
   /\ http.token.kind = "jwt"
   /\ http.token.type = "refresh")
    => (http.status = 401 \/ http.user_id = 0)

\* C29: a chat request that reaches response generation adds exactly one to
\* total_requests, and adds to successful_requests only when the reply came
\* from the provider or from the cache.
C29_OneRequestOneCount ==
  [][ChatGenerated =>
       /\ ANALYTICS_STORE'.total_requests = ANALYTICS_STORE.total_requests + 1
       /\ ANALYTICS_STORE'.successful_requests > ANALYTICS_STORE.successful_requests
            => (http'.stage = "answered" /\ ReplyOrigin(http') \in {"provider", "cache"})
    ]_vars


(***************************************************************************)
(* Properties of registration (SpecRegister).                              *)
(***************************************************************************)
\* no two rows of the user table share a username or an email
UniqueCredentials ==
  \A i, j \in 1..Len(db.users) :
    i # j => /\ db.users[i].username # db.users[j].username
             /\ db.users[i].email # db.users[j].email

\* C25: after any interleaving of register requests no two users share a
\* username or an email, and every request that did not create its user,
\* its username or email being taken by the time it commits, was answered
\* with 400.
C25_DuplicateRegistrationIs400 ==
  /\ UniqueCredentials
  /\ \A i \in 1..Len(procs) :
       procs[i].at = "done" => procs[i].status \in {201, 400}

====
